---------------------------- MODULE Spec2Model ----------------------------
(***************************************************************************)
(* Defense-strength reconciliation pipeline of pickfinder-scraper:         *)
(*   - the join of scraped props with defense records                      *)
(*     (mergePropsWithDefense: findDefenseStrength, mergePrizePicksProps,  *)
(*     mergeUnderdogProps),                                                *)
(*   - the team and stat canonicalizers of the two prop scrapers,          *)
(*   - the defense scraper scrapeDefenseData of scrape-today-players.ts.   *)
(* JavaScript strings are TLA+ strings; the string primitives the code     *)
(* uses (toLowerCase, toUpperCase, trim, includes, replace) are defined    *)
(* character by character below.                                           *)
(***************************************************************************)
EXTENDS Integers, Sequences, FiniteSets, TLC

(***************************************************************************)
(* JavaScript string primitives                                            *)
(***************************************************************************)
UpperAlpha == "ABCDEFGHIJKLMNOPQRSTUVWXYZ"

LowerAlpha == "abcdefghijklmnopqrstuvwxyz"

Digits == "0123456789"

Char(s, i) == SubSeq(s, i, i)

CharsOf(s) == { Char(s, i) : i \in 1..Len(s) }

UpperSet == CharsOf(UpperAlpha)

LowerSet == CharsOf(LowerAlpha)

DigitSet == CharsOf(Digits)

\* the characters matched by \s and removed by trim()
WhiteSpace == {" ", "\t", "\n"}

\* the characters matched by \w
WordChars == UpperSet \cup LowerSet \cup DigitSet \cup {"_"}

LowerOf == [c \in UpperSet |-> Char(LowerAlpha, CHOOSE i \in 1..26 : Char(UpperAlpha, i) = c)]

UpperOf == [c \in LowerSet |-> Char(UpperAlpha, CHOOSE i \in 1..26 : Char(LowerAlpha, i) = c)]

RECURSIVE LowerFrom(_, _)
LowerFrom(s, i) ==
  IF i > Len(s) THEN ""
  ELSE (IF Char(s, i) \in UpperSet THEN LowerOf[Char(s, i)] ELSE Char(s, i)) \o LowerFrom(s, i + 1)

toLowerCase(s) == LowerFrom(s, 1)

RECURSIVE UpperFrom(_, _)
UpperFrom(s, i) ==
  IF i > Len(s) THEN ""
  ELSE (IF Char(s, i) \in LowerSet THEN UpperOf[Char(s, i)] ELSE Char(s, i)) \o UpperFrom(s, i + 1)

toUpperCase(s) == UpperFrom(s, 1)

\* index of the first / last character that is not white space (0 if none)
FirstInk(s) ==
  IF \E i \in 1..Len(s) : Char(s, i) \notin WhiteSpace
  THEN CHOOSE i \in 1..Len(s) :
         /\ Char(s, i) \notin WhiteSpace
         /\ \A j \in 1..(i - 1) : Char(s, j) \in WhiteSpace
  ELSE 0

LastInk(s) ==
  IF \E i \in 1..Len(s) : Char(s, i) \notin WhiteSpace
  THEN CHOOSE i \in 1..Len(s) :
         /\ Char(s, i) \notin WhiteSpace
         /\ \A j \in (i + 1)..Len(s) : Char(s, j) \in WhiteSpace
  ELSE 0

trim(s) == IF FirstInk(s) = 0 THEN "" ELSE SubSeq(s, FirstInk(s), LastInk(s))

\* s.includes(sub)
includes(s, sub) ==
  \/ sub = ""
  \/ \E i \in 1..(Len(s) - Len(sub) + 1) : SubSeq(s, i, i + Len(sub) - 1) = sub

\* s.replace(/\s+/g, ' '): every maximal run of white space becomes one space
RECURSIVE CollapseFrom(_, _)
CollapseFrom(s, i) ==
  IF i > Len(s) THEN ""
  ELSE IF Char(s, i) \in WhiteSpace
       THEN (IF i > 1 /\ Char(s, i - 1) \in WhiteSpace THEN "" ELSE " ") \o CollapseFrom(s, i + 1)
       ELSE Char(s, i) \o CollapseFrom(s, i + 1)

collapseWhitespace(s) == CollapseFrom(s, 1)

\* s.replace(/[^\w\s]/g, ''): every character that is neither \w nor \s is removed
KeptChars == WordChars \cup WhiteSpace

RECURSIVE StripFrom(_, _)
StripFrom(s, i) ==
  IF i > Len(s) THEN ""
  ELSE (IF Char(s, i) \in KeptChars THEN Char(s, i) ELSE "") \o StripFrom(s, i + 1)

stripSpecial(s) == StripFrom(s, 1)

(***************************************************************************)
(* Join engine (mergePropsWithDefense)                                     *)
(***************************************************************************)
normalizeStatForMatching(stat) ==
  trim(stripSpecial(collapseWhitespace(toLowerCase(stat))))

teamVariations ==
  [k \in {"LAK", "LA", "NJD", "NJ", "NYI", "NYR", "SJS", "SJ", "TBL", "TB",
          "VGK", "VEG", "WSH", "WAS", "WPG", "WIN"} |->
     CASE k \in {"LAK", "LA"}  -> "LAK"
       [] k \in {"NJD", "NJ"}  -> "NJD"
       [] k = "NYI"            -> "NYI"
       [] k = "NYR"            -> "NYR"
       [] k \in {"SJS", "SJ"}  -> "SJS"
       [] k \in {"TBL", "TB"}  -> "TBL"
       [] k \in {"VGK", "VEG"} -> "VGK"
       [] k \in {"WSH", "WAS"} -> "WSH"
       [] k \in {"WPG", "WIN"} -> "WPG"]

normalizeTeamForMatching(team) ==
  LET upper == trim(toUpperCase(team))
  IN  IF upper \in DOMAIN teamVariations THEN teamVariations[upper] ELSE upper

\* the alias groups of findDefenseStrength, in the order Object.entries visits them
statAliases == <<
  [key |-> "points",        aliases |-> <<"pts", "point", "points">>],
  [key |-> "goals",         aliases |-> <<"goal", "goals">>],
  [key |-> "assists",       aliases |-> <<"asts", "assist", "assists">>],
  [key |-> "shots on goal", aliases |-> <<"sog", "shots", "shot", "shots on goal", "shot on goal">>],
  [key |-> "hits",          aliases |-> <<"hit", "hits">>],
  [key |-> "blocked shots", aliases |-> <<"blocks", "blocked", "blocked shots", "block">>],
  [key |-> "time on ice",   aliases |-> <<"toi", "time", "time on ice">>],
  [key |-> "faceoffs won",  aliases |-> <<"fow", "faceoff won", "faceoffs won", "face off won">>],
  [key |-> "faceoffs lost", aliases |-> <<"fol", "faceoff lost", "faceoffs lost", "face off lost">>],
  [key |-> "faceoffs",      aliases |-> <<"fo", "faceoff", "faceoffs", "face off">>],
  [key |-> "goals allowed", aliases |-> <<"ga", "goals allowed", "goal allowed">>],
  [key |-> "goalie saves",  aliases |-> <<"saves", "sv", "save", "goalie saves", "goalie save">>] >>

\* Array.prototype.find over a list whose i-th element satisfies the
\* predicate iff hit[i]: index of the first such element, 0 if none
FindIndex(hit) ==
  IF \E i \in DOMAIN hit : hit[i]
  THEN CHOOSE i \in DOMAIN hit : hit[i] /\ \A j \in 1..(i - 1) : ~hit[j]
  ELSE 0

\* aliases.some(alias => normalizedStat === alias || normalizedStat.includes(alias)
\*                       || alias.includes(normalizedStat))
PropMatchesAlias(k, normalizedStat) ==
  \E a \in 1..Len(statAliases[k].aliases) :
     LET alias == statAliases[k].aliases[a]
     IN  normalizedStat = alias \/ includes(normalizedStat, alias) \/ includes(alias, normalizedStat)

\* the predicate of the forward alias pass, on the normalized stat of a record
AliasForwardHit(k, defenseStat) ==
  LET key == statAliases[k].key
  IN  \/ defenseStat = key
      \/ includes(defenseStat, key)
      \/ includes(key, defenseStat)
      \/ \E a \in 1..Len(statAliases[k].aliases) :
            \/ defenseStat = statAliases[k].aliases[a]
            \/ includes(defenseStat, statAliases[k].aliases[a])

\* the predicate of the reverse alias pass, on the normalized stat of a record
AliasReverseHit(k, defenseStat) ==
  LET key == statAliases[k].key
  IN  defenseStat = key \/ includes(defenseStat, key) \/ includes(key, defenseStat)

\* the predicate of the partial pass, on the normalized stat of a record
PartialHit(defenseStat, normalizedStat) ==
  \/ includes(defenseStat, normalizedStat)
  \/ includes(normalizedStat, defenseStat)
  \/ defenseStat = normalizedStat

\* the value findDefenseStrength returns: found = FALSE is null; tier is the
\* pass that returned (1 exact, 2 partial, 3 alias forward, 4 alias reverse,
\* 0 none); examined counts the defense records the call has looked at
NoDefense(examined) == [found |-> FALSE, rank |-> "", tier |-> 0, examined |-> examined]

\* if (!opponent || !statCategory) return null, with the opponent test left out
MissingKey_statOnly(opponent, statCategory) == statCategory = ""

\* if (!opponent || !statCategory) return null
MissingKey(opponent, statCategory) == opponent = "" \/ statCategory = ""

\* the opponent filter comparing the record's team instead of its opponent
OpponentMatches_byTeam(defenseData, normalizedOpponent) ==
  LET TeamIs(d) == normalizeTeamForMatching(d.team) = normalizedOpponent
  IN  SelectSeq(defenseData, TeamIs)

\* defenseData.filter(d => normalizeTeamForMatching(d.opponent) === normalizedOpponent)
OpponentMatches(defenseData, normalizedOpponent) ==
  LET OpponentIs(d) == normalizeTeamForMatching(d.opponent) = normalizedOpponent
  IN  SelectSeq(defenseData, OpponentIs)

\* the passes with the partial pass tried before the exact one
TierOf_partialFirst(exactMatch, partialMatch, aliasMatch, defenseStatMatches) ==
  IF partialMatch # 0 THEN 2
  ELSE IF exactMatch # 0 THEN 1
  ELSE IF aliasMatch # 0 THEN 3
  ELSE IF defenseStatMatches # 0 THEN 4
  ELSE 0

\* the order of the passes: each argument is the index of the record its
\* pass found (0 if none); the first pass that found a record returns
TierOf(exactMatch, partialMatch, aliasMatch, defenseStatMatches) ==
  IF exactMatch # 0 THEN 1
  ELSE IF partialMatch # 0 THEN 2
  ELSE IF aliasMatch # 0 THEN 3
  ELSE IF defenseStatMatches # 0 THEN 4
  ELSE 0

\* the return statement of the pass that found a record: its rank
ReturnOf(opponentMatches, n, tier, exactMatch, partialMatch, aliasMatch, defenseStatMatches) ==
  CASE tier = 1 -> [found |-> TRUE, rank |-> opponentMatches[exactMatch].rank,
                    tier |-> 1, examined |-> n]
    [] tier = 2 -> [found |-> TRUE, rank |-> opponentMatches[partialMatch].rank,
                    tier |-> 2, examined |-> n]
    [] tier = 3 -> [found |-> TRUE, rank |-> opponentMatches[aliasMatch].rank,
                    tier |-> 3, examined |-> n]
    [] tier = 4 -> [found |-> TRUE, rank |-> opponentMatches[defenseStatMatches].rank,
                    tier |-> 4, examined |-> n]
    [] OTHER -> NoDefense(n)

\* normalizeStatForMatching(d.position) of the records from the i-th on
RECURSIVE DefenseStats(_, _)
DefenseStats(opponentMatches, i) ==
  IF i > Len(opponentMatches) THEN << >>
  ELSE << normalizeStatForMatching(opponentMatches[i].position) >>
         \o DefenseStats(opponentMatches, i + 1)

findDefenseStrength(defenseData, team, opponent, statCategory) ==
  IF MissingKey(opponent, statCategory) THEN NoDefense(0)
  ELSE
  LET normalizedOpponent == normalizeTeamForMatching(opponent)
      normalizedStat == normalizeStatForMatching(statCategory)
      opponentMatches == OpponentMatches(defenseData, normalizedOpponent)
      n == Len(defenseData)
      \* normalizeStatForMatching(d.position) of every candidate
      defenseStat == DefenseStats(opponentMatches, 1)
      exactMatch == FindIndex([i \in 1..Len(opponentMatches) |-> defenseStat[i] = normalizedStat])
      partialMatch == FindIndex([i \in 1..Len(opponentMatches) |->
                                   PartialHit(defenseStat[i], normalizedStat)])
      Fwd(k) == FindIndex([i \in 1..Len(opponentMatches) |-> AliasForwardHit(k, defenseStat[i])])
      Rev(k) == FindIndex([i \in 1..Len(opponentMatches) |-> AliasReverseHit(k, defenseStat[i])])
      fwdKeys == { k \in 1..Len(statAliases) : PropMatchesAlias(k, normalizedStat) /\ Fwd(k) # 0 }
      revKeys == { k \in 1..Len(statAliases) : Rev(k) # 0 /\ PropMatchesAlias(k, normalizedStat) }
      First(S) == CHOOSE k \in S : \A j \in S : k <= j
      aliasMatch == IF fwdKeys # {} THEN Fwd(First(fwdKeys)) ELSE 0
      defenseStatMatches == IF revKeys # {} THEN Rev(First(revKeys)) ELSE 0
  IN  IF Len(opponentMatches) = 0 THEN NoDefense(n)
      ELSE ReturnOf(opponentMatches, n,
                    TierOf(exactMatch, partialMatch, aliasMatch, defenseStatMatches),
                    exactMatch, partialMatch, aliasMatch, defenseStatMatches)

\* the default left out: a null result is passed on as it is
OrNA_keepNull(r) == r.rank

\* defenseStrength || 'NA'
OrNA(r) == IF r.found /\ r.rank # "" THEN r.rank ELSE "NA"

\* props.map(...) of mergePrizePicksProps
MergedPrizePicks(prop, defenseData) ==
  [player          |-> prop.playerName,
   team            |-> prop.team,
   opponent        |-> prop.opponent,
   position        |-> prop.statCategory,
   stat            |-> prop.statCategory,
   line            |-> prop.line,
   defenseStrength |-> OrNA(findDefenseStrength(defenseData, prop.team, prop.opponent, prop.statCategory)),
   projectionId    |-> prop.projectionId]

\* the lookup made with the player position in front of the statistic
MergedUnderdog_byPosition(prop, defenseData) ==
  [player          |-> prop.playerName,
   team            |-> prop.team,
   opponent        |-> prop.opponent,
   position        |-> prop.position,
   stat            |-> prop.stat,
   line            |-> prop.line,
   defenseStrength |-> OrNA(findDefenseStrength(defenseData, prop.team, prop.opponent,
                                                prop.position \o " - " \o prop.stat)),
   gameTime        |-> prop.gameTime]

\* props.map(...) of mergeUnderdogProps
MergedUnderdog(prop, defenseData) ==
  [player          |-> prop.playerName,
   team            |-> prop.team,
   opponent        |-> prop.opponent,
   position        |-> prop.position,
   stat            |-> prop.stat,
   line            |-> prop.line,
   defenseStrength |-> OrNA(findDefenseStrength(defenseData, prop.team, prop.opponent, prop.stat)),
   gameTime        |-> prop.gameTime]

Reverse(seq) == [i \in 1..Len(seq) |-> seq[Len(seq) + 1 - i]]

\* the merge keeping only the props that found a rank
mergePrizePicksProps_matchedOnly(props, defenseData) ==
  LET Matched(p) == MergedPrizePicks(p, defenseData).defenseStrength # "NA"
      kept == SelectSeq(props, Matched)
  IN  [merged      |-> [i \in 1..Len(kept) |-> MergedPrizePicks(kept[i], defenseData)],
       props       |-> props,
       defenseData |-> defenseData]

\* the merge reordering the defense list it was given (an in-place reverse)
mergePrizePicksProps_reordering(props, defenseData) ==
  [merged      |-> [i \in 1..Len(props) |-> MergedPrizePicks(props[i], defenseData)],
   props       |-> props,
   defenseData |-> Reverse(defenseData)]

\* The arrays are passed by reference: the value of a call is the list it
\* returns together with the two argument lists as the call leaves them.
mergePrizePicksProps(props, defenseData) ==
  [merged      |-> [i \in 1..Len(props) |-> MergedPrizePicks(props[i], defenseData)],
   props       |-> props,
   defenseData |-> defenseData]

mergeUnderdogProps(props, defenseData) ==
  [merged      |-> [i \in 1..Len(props) |-> MergedUnderdog(props[i], defenseData)],
   props       |-> props,
   defenseData |-> defenseData]

(***************************************************************************)
(* Canonicalizers of the prop scrapers                                     *)
(* A canonicalizer indexes an object literal with its argument, so the     *)
(* value it returns is a JavaScript value that need not be a string:       *)
(* [type, str] is the string str when type = "string", the inherited       *)
(* member named str of Object.prototype when type is "function" or         *)
(* "object", undefined when type = "undefined", and a thrown TypeError     *)
(* when type = "TypeError".                                                *)
(***************************************************************************)
JsString(s) == [type |-> "string", str |-> s]

JsUndefined == [type |-> "undefined", str |-> ""]

JsTypeError(what) == [type |-> "TypeError", str |-> what]

\* the members every object literal inherits from Object.prototype
ObjectPrototypeFunctions ==
  { "constructor", "hasOwnProperty", "isPrototypeOf", "propertyIsEnumerable",
    "toLocaleString", "toString", "valueOf", "__defineGetter__", "__defineSetter__",
    "__lookupGetter__", "__lookupSetter__" }

ObjectPrototypeObjects == { "__proto__" }

Keys(map) == { e[1] : e \in map }

\* map[key] on an object literal: own property, else inherited member, else undefined
JsGet(map, key) ==
  IF key \in Keys(map) THEN JsString((CHOOSE e \in map : e[1] = key)[2])
  ELSE IF key \in ObjectPrototypeFunctions THEN [type |-> "function", str |-> key]
  ELSE IF key \in ObjectPrototypeObjects THEN [type |-> "object", str |-> key]
  ELSE JsUndefined

\* the truthiness test of ||
Truthy(v) == v.type \in {"function", "object"} \/ (v.type = "string" /\ v.str # "")

\* teamMap of normalizeTeamName (Underdog scraper)
underdog_teamMap ==
  { <<"ARI", "ARI">>, <<"ATL", "WPG">>, <<"BOS", "BOS">>, <<"BUF", "BUF">>,
    <<"CGY", "CGY">>, <<"CAR", "CAR">>, <<"CHI", "CHI">>, <<"COL", "COL">>,
    <<"CBJ", "CBJ">>, <<"DAL", "DAL">>, <<"DET", "DET">>, <<"EDM", "EDM">>,
    <<"FLA", "FLA">>, <<"LAK", "LAK">>, <<"LA", "LAK">>, <<"MIN", "MIN">>,
    <<"MTL", "MTL">>, <<"NSH", "NSH">>, <<"NJD", "NJD">>, <<"NJ", "NJD">>,
    <<"NYI", "NYI">>, <<"NYR", "NYR">>, <<"OTT", "OTT">>, <<"PHI", "PHI">>,
    <<"PIT", "PIT">>, <<"SJS", "SJS">>, <<"SJ", "SJS">>, <<"SEA", "SEA">>,
    <<"STL", "STL">>, <<"TBL", "TBL">>, <<"TB", "TBL">>, <<"TOR", "TOR">>,
    <<"UTA", "UTA">>, <<"VAN", "VAN">>, <<"VGK", "VGK">>, <<"VEG", "VGK">>,
    <<"WSH", "WSH">>, <<"WAS", "WSH">>, <<"WPG", "WPG">>, <<"WIN", "WPG">> }

\* statMap of normalizeStatType (Underdog scraper)
underdog_statMap ==
  { <<"Points", "Points">>, <<"Pts", "Points">>, <<"Goals", "Goals">>, <<"Assists", "Assists">>,
    <<"Asts", "Assists">>, <<"Shots on Goal", "Shots on Goal">>, <<"SOG", "Shots on Goal">>, <<"Shots", "Shots on Goal">>,
    <<"Hits", "Hits">>, <<"Blocked Shots", "Blocked Shots">>, <<"Blocks", "Blocked Shots">>, <<"Time On Ice", "Time On Ice">>,
    <<"TOI", "Time On Ice">>, <<"Faceoffs Won", "Faceoffs Won">>, <<"FOW", "Faceoffs Won">>, <<"Faceoffs Lost", "Faceoffs Lost">>,
    <<"FOL", "Faceoffs Lost">>, <<"Faceoffs", "Faceoffs">>, <<"FO", "Faceoffs">>, <<"Goals Allowed", "Goals Allowed">>,
    <<"GA", "Goals Allowed">>, <<"Saves", "Goalie Saves">>, <<"SV", "Goalie Saves">>, <<"Goalie Saves", "Goalie Saves">>,
    <<"Fantasy Score", "Points">> }

\* teamMap of normalizeTeamName (PrizePicks scraper)
prizePicks_teamMap ==
  { <<"ARI", "ARI">>, <<"ATL", "WPG">>, <<"BOS", "BOS">>, <<"BUF", "BUF">>,
    <<"CGY", "CGY">>, <<"CAR", "CAR">>, <<"CHI", "CHI">>, <<"COL", "COL">>,
    <<"CBJ", "CBJ">>, <<"DAL", "DAL">>, <<"DET", "DET">>, <<"EDM", "EDM">>,
    <<"FLA", "FLA">>, <<"LAK", "LAK">>, <<"LA", "LAK">>, <<"MIN", "MIN">>,
    <<"MTL", "MTL">>, <<"NSH", "NSH">>, <<"NJD", "NJD">>, <<"NYI", "NYI">>,
    <<"NYR", "NYR">>, <<"OTT", "OTT">>, <<"PHI", "PHI">>, <<"PIT", "PIT">>,
    <<"SJS", "SJS">>, <<"SEA", "SEA">>, <<"STL", "STL">>, <<"TBL", "TBL">>,
    <<"TOR", "TOR">>, <<"UTA", "UTA">>, <<"VAN", "VAN">>, <<"VGK", "VGK">>,
    <<"WSH", "WSH">>, <<"WPG", "WPG">> }

\* statMap of normalizeStatType (PrizePicks scraper)
prizePicks_statMap ==
  { <<"Points", "Points">>, <<"Pts", "Points">>, <<"Goals", "Goals">>, <<"Assists", "Assists">>,
    <<"Asts", "Assists">>, <<"Shots on Goal", "Shots on Goal">>, <<"SOG", "Shots on Goal">>, <<"Shots", "Shots on Goal">>,
    <<"Hits", "Hits">>, <<"Blocked Shots", "Blocked Shots">>, <<"Blocks", "Blocked Shots">>, <<"Time On Ice", "Time On Ice">>,
    <<"TOI", "Time On Ice">>, <<"Faceoffs Won", "Faceoffs Won">>, <<"FOW", "Faceoffs Won">>, <<"Faceoffs Lost", "Faceoffs Lost">>,
    <<"FOL", "Faceoffs Lost">>, <<"Faceoffs", "Faceoffs">>, <<"FO", "Faceoffs">>, <<"Goals Allowed", "Goals Allowed">>,
    <<"GA", "Goals Allowed">>, <<"Saves", "Goalie Saves">>, <<"SV", "Goalie Saves">>, <<"Goalie Saves", "Goalie Saves">> }

\* normalizeTeamName of the Underdog scraper with the trim left out
underdog_normalizeTeamName_noTrim(teamName) ==
  LET upper == toUpperCase(teamName)
      hit == JsGet(underdog_teamMap, upper)
  IN  IF Truthy(hit) THEN hit ELSE JsString(upper)

\* normalizeTeamName of the Underdog scraper
underdog_normalizeTeamName(teamName) ==
  LET upper == trim(toUpperCase(teamName))
      hit == JsGet(underdog_teamMap, upper)
  IN  IF Truthy(hit) THEN hit ELSE JsString(upper)

\* normalizeTeamName of the PrizePicks scraper
prizePicks_normalizeTeamName(teamName) ==
  LET upper == trim(toUpperCase(teamName))
      hit == JsGet(prizePicks_teamMap, upper)
  IN  IF Truthy(hit) THEN hit ELSE JsString(upper)

\* normalizeStatType of the Underdog scraper; statType is a JavaScript value
\* (a value that is not a string has no trim method)
underdog_normalizeStatType(statType) ==
  IF statType.type # "string" THEN JsTypeError("statType.trim is not a function")
  ELSE LET normalized == trim(statType.str)
           hit == JsGet(underdog_statMap, normalized)
       IN  IF Truthy(hit) THEN hit ELSE JsString(normalized)

\* normalizeStatType of the PrizePicks scraper; statType is a JavaScript value
\* (a value that is not a string is converted to a key no table lists)
prizePicks_normalizeStatType(statType) ==
  IF statType.type # "string" THEN statType
  ELSE LET hit == JsGet(prizePicks_statMap, statType.str)
       IN  IF Truthy(hit) THEN hit ELSE statType

(***************************************************************************)
(* Defense scraper (scrape-today-players.ts): extraction                   *)
(* A container is the part of the DOM a locator settles on:                *)
(*   found    - whether the locator finds a container at all,             *)
(*   table    - the first two cells <<statName, rankText>> of every row   *)
(*              with at least two cells of its first table,               *)
(*   text     - its innerText,                                            *)
(*   elements - the descendants the card scans visit, as [tag, text].     *)
(***************************************************************************)
MinWeakRank == 24

MaxWeakRank == 32

\* index of the first decimal digit of s (0 if none)
FirstDigit(s) ==
  IF \E i \in 1..Len(s) : Char(s, i) \in DigitSet
  THEN CHOOSE i \in 1..Len(s) :
         /\ Char(s, i) \in DigitSet
         /\ \A j \in 1..(i - 1) : Char(s, j) \notin DigitSet
  ELSE 0

\* index of the last digit of the run of digits that starts at i
RECURSIVE DigitRunEnd(_, _)
DigitRunEnd(s, i) ==
  IF i < Len(s) /\ Char(s, i + 1) \in DigitSet THEN DigitRunEnd(s, i + 1) ELSE i

\* index of the last character of the run of white space that starts at i
RECURSIVE SpaceRunEnd(_, _)
SpaceRunEnd(s, i) ==
  IF i < Len(s) /\ Char(s, i + 1) \in WhiteSpace THEN SpaceRunEnd(s, i + 1) ELSE i

\* s.substring(a - 1, b): the characters a..b of s that exist
Slice(s, a, b) ==
  IF a > Len(s) \/ b < a THEN ""
  ELSE SubSeq(s, a, IF b > Len(s) THEN Len(s) ELSE b)

DigitValue == [c \in DigitSet |-> (CHOOSE i \in 1..10 : Char(Digits, i) = c) - 1]

\* parseInt(d, 10) of a string of digits
RECURSIVE parseInt(_)
parseInt(d) ==
  IF d = "" THEN 0
  ELSE 10 * parseInt(SubSeq(d, 1, Len(d) - 1)) + DigitValue[Char(d, Len(d))]

\* rank.match(/(\d+)/): the first run of digits ("" if none)
FirstNumber(rank) ==
  IF FirstDigit(rank) = 0 THEN ""
  ELSE SubSeq(rank, FirstDigit(rank), DigitRunEnd(rank, FirstDigit(rank)))

isRankInRange(rank) ==
  /\ FirstNumber(rank) # ""
  /\ parseInt(FirstNumber(rank)) >= MinWeakRank
  /\ parseInt(FirstNumber(rank)) <= MaxWeakRank

statCategories ==
  << "Shots on Goal", "Shots", "SOG",
     "Faceoffs Won", "FOW", "Face Off Wins",
     "Hits",
     "Points", "Pts",
     "Goals Allowed", "GA",
     "Goalie Saves", "Saves", "SV",
     "Blocked Shots", "Blocks",
     "Time On Ice", "TOI",
     "Faceoffs Lost", "FOL",
     "Faceoffs", "FO" >>

OrdinalSuffixes == {"th", "st", "nd", "rd"}

\* /th|st|nd|rd/i.test(s)
HasOrdinal(s) == \E suffix \in OrdinalSuffixes : includes(toLowerCase(s), suffix)

\* /\d/.test(s)
HasDigit(s) == FirstDigit(s) # 0

\* rank.replace(/\d+/, (m) => m + 'th')
SuffixFirstNumber(rank) ==
  LET e == DigitRunEnd(rank, FirstDigit(rank))
  IN  SubSeq(rank, 1, e) \o "th" \o SubSeq(rank, e + 1, Len(rank))

\* the rank a table row or a card yields for the text of its rank cell
WithOrdinal(rank, suffixed) ==
  IF ~HasOrdinal(rank) /\ HasDigit(rank) THEN suffixed ELSE rank

\* statCategories.find(...) on a cell text: index of the first category that
\* contains the cell text or is contained in it, ignoring case (0 if none)
MatchedStat(statName) ==
  LET low == toLowerCase(statName)
      hit == [k \in 1..Len(statCategories) |->
                \/ includes(low, toLowerCase(statCategories[k]))
                \/ includes(toLowerCase(statCategories[k]), low)]
  IN  FindIndex(hit)

\* the row pushed for a table row with cell texts statName and rankText whose
\* matched category has index matchedStat: none or one
TableRowWith(statName, rankText, matchedStat) ==
  IF /\ (matchedStat # 0 \/ Len(statName) > 0)
     /\ Len(rankText) > 0
     /\ (HasDigit(rankText) \/ includes(toLowerCase(rankText), "rank") \/ HasOrdinal(rankText))
  THEN << [position |-> IF matchedStat # 0 THEN statCategories[matchedStat] ELSE statName,
           rank |-> WithOrdinal(rankText, SuffixFirstNumber(rankText))] >>
  ELSE << >>

TableRowOf(statName, rankText) == TableRowWith(statName, rankText, MatchedStat(statName))

\* the rows pushed for one table row
TableRow(cells) == TableRowOf(trim(cells[1]), trim(cells[2]))

RECURSIVE TableRowsFrom(_, _)
TableRowsFrom(table, i) ==
  IF i > Len(table) THEN << >> ELSE TableRow(table[i]) \o TableRowsFrom(table, i + 1)

\* the table strategy
TableStrategy(container) == TableRowsFrom(container.table, 1)

NoMatch == [start |-> 0, end |-> 0, position |-> "", rank |-> ""]

\* the smallest element of a set of indices (0 if it is empty)
LeftMost(S) == IF S = {} THEN 0 ELSE CHOOSE i \in S : \A j \in S : i <= j

\* the match that starts at i, names text[i..nameEnd], has its number at
\* rankStart and ends at end (no match if end = 0)
MatchOf(text, i, nameEnd, rankStart, end) ==
  IF end = 0 THEN NoMatch
  ELSE [start |-> i, end |-> end,
        position |-> SubSeq(text, i, nameEnd),
        rank |-> SubSeq(text, rankStart, end)]

\* index of the first character at or after i that is not white space
SkipSpaces(text, i) ==
  IF i <= Len(text) /\ Char(text, i) \in WhiteSpace THEN SpaceRunEnd(text, i) + 1 ELSE i

\* end of  \d+(?:th|st|nd|rd)  or, with optional = TRUE, of
\* \d+(?:th|st|nd|rd|\s*rank)?  whose digits end at digitEnd (0 if no match)
SuffixEnd(text, digitEnd, optional) ==
  IF toLowerCase(Slice(text, digitEnd + 1, digitEnd + 2)) \in OrdinalSuffixes THEN digitEnd + 2
  ELSE IF ~optional THEN 0
  ELSE IF toLowerCase(Slice(text, SkipSpaces(text, digitEnd + 1),
                            SkipSpaces(text, digitEnd + 1) + 3)) = "rank"
       THEN SkipSpaces(text, digitEnd + 1) + 3
  ELSE digitEnd

\* the number and suffix after the white space that ends at spaceEnd
StatRankNumber(text, i, statEnd, spaceEnd, optional) ==
  IF spaceEnd >= Len(text) \/ Char(text, spaceEnd + 1) \notin DigitSet THEN NoMatch
  ELSE MatchOf(text, i, statEnd, spaceEnd + 1,
               SuffixEnd(text, DigitRunEnd(text, spaceEnd + 1), optional))

\* the match of  (stat)\s+(\d+ suffix)  that starts at index i of text, ignoring
\* case; suffix is th|st|nd|rd, and with optional = TRUE it may also be
\* \s*rank or be absent
StatRankAt(text, i, stat, optional) ==
  IF \/ i + Len(stat) - 1 >= Len(text)
     \/ toLowerCase(SubSeq(text, i, i + Len(stat) - 1)) # toLowerCase(stat)
     \/ Char(text, i + Len(stat)) \notin WhiteSpace
  THEN NoMatch
  ELSE StatRankNumber(text, i, i + Len(stat) - 1, SpaceRunEnd(text, i + Len(stat)), optional)

StatRankAtOrNone(text, i, stat, optional) ==
  IF i = 0 THEN NoMatch ELSE StatRankAt(text, i, stat, optional)

\* the leftmost match at or after index from (NoMatch if none)
StatRankNext(text, from, stat, optional) ==
  StatRankAtOrNone(text,
                   LeftMost({ i \in from..Len(text) : StatRankAt(text, i, stat, optional).end # 0 }),
                   stat, optional)

\* while ((match = pattern.exec(containerText)) !== null) push(match[1].trim(), match[2].trim())
RECURSIVE StatRankAll(_, _, _)
RECURSIVE StatRankPush(_, _, _)
StatRankPush(text, stat, m) ==
  IF m.end = 0 THEN << >>
  ELSE << [position |-> trim(m.position), rank |-> trim(m.rank)] >>
       \o StatRankAll(text, m.end + 1, stat)

StatRankAll(text, from, stat) == StatRankPush(text, stat, StatRankNext(text, from, stat, FALSE))

RECURSIVE TextRowsFrom(_, _)
TextRowsFrom(text, k) ==
  IF k > Len(statCategories) THEN << >>
  ELSE StatRankAll(text, 1, statCategories[k]) \o TextRowsFrom(text, k + 1)

\* the text strategy, on the trimmed innerText of the container
TextStrategy(container) == TextRowsFrom(trim(container.text), 1)

\* `${result.position}-${result.rank}`
RowKey(row) == row.position \o "-" \o row.rank

\* the Map keyed by RowKey: the first entry of every key, in order of insertion
RECURSIVE Unique(_, _)
Unique(results, i) ==
  IF i > Len(results) THEN << >>
  ELSE (IF \E j \in 1..(i - 1) : RowKey(results[j]) = RowKey(results[i])
        THEN << >> ELSE << results[i] >>) \o Unique(results, i + 1)

\* the next strategy runs whatever the earlier ones yielded
OrElse_always(results, next) == results \o next

\* if (results.length === 0): the rows of the next strategy
OrElse(results, next) == IF Len(results) = 0 THEN next ELSE results

\* extractDefenseDataFromPage on the container its locator finds
extractDefenseDataFromPage(container) ==
  IF ~container.found THEN << >>
  ELSE Unique(OrElse(TableStrategy(container), TextStrategy(container)), 1)

\* index of the last character of the run of ink that starts at i
RECURSIVE InkRunEnd(_, _)
InkRunEnd(s, i) ==
  IF i < Len(s) /\ Char(s, i + 1) \notin WhiteSpace THEN InkRunEnd(s, i + 1) ELSE i

\* s.split(/\s+/) of a string that neither starts nor ends with white space
RECURSIVE Tokens(_, _)
Tokens(s, i) ==
  IF i > Len(s) THEN << >>
  ELSE IF Char(s, i) \in WhiteSpace THEN Tokens(s, SpaceRunEnd(s, i) + 1)
  ELSE << SubSeq(s, i, InkRunEnd(s, i)) >> \o Tokens(s, InkRunEnd(s, i) + 1)

\* parts.join(' ')
RECURSIVE Join(_, _)
Join(parts, i) ==
  IF i > Len(parts) THEN ""
  ELSE parts[i] \o (IF i < Len(parts) THEN " " ELSE "") \o Join(parts, i + 1)

ShortPositions == << "RW", "LW", "C", "D", "G" >>

LongPositions ==
  << "RW", "LW", "C", "D", "G", "Center", "Left", "Right", "Defense", "Wing", "Goalie" >>

\* \b after index e of text, whose character at e is a word character
WordEndsAt(text, e) == e = Len(text) \/ Char(text, e + 1) \notin WordChars

\* end of  (\d+(?:th|st|nd|rd)|\d+)\b  whose digits end at digitEnd (0 if no match)
NumberEnd(text, digitEnd) ==
  IF /\ toLowerCase(Slice(text, digitEnd + 1, digitEnd + 2)) \in OrdinalSuffixes
     /\ WordEndsAt(text, digitEnd + 2)
  THEN digitEnd + 2
  ELSE IF WordEndsAt(text, digitEnd) THEN digitEnd
  ELSE 0

PositionRankNumber(text, i, altEnd, spaceEnd) ==
  IF spaceEnd >= Len(text) \/ Char(text, spaceEnd + 1) \notin DigitSet THEN NoMatch
  ELSE MatchOf(text, i, altEnd, spaceEnd + 1, NumberEnd(text, DigitRunEnd(text, spaceEnd + 1)))

\* the match of  \b(alt)\s+(\d+(?:th|st|nd|rd)|\d+)\b  that starts at index i, ignoring case
PositionRankWith(text, i, alt) ==
  IF \/ (i > 1 /\ Char(text, i - 1) \in WordChars)
     \/ i + Len(alt) - 1 >= Len(text)
     \/ toLowerCase(SubSeq(text, i, i + Len(alt) - 1)) # toLowerCase(alt)
     \/ Char(text, i + Len(alt)) \notin WhiteSpace
  THEN NoMatch
  ELSE PositionRankNumber(text, i, i + Len(alt) - 1, SpaceRunEnd(text, i + Len(alt)))

\* index of the first alternative, in the order written, that matches at i (0 if none)
PositionAltAt(text, i, alts) ==
  FindIndex([a \in 1..Len(alts) |-> PositionRankWith(text, i, alts[a]).end # 0])

\* the row pushed for the match at index i with alternative k
PositionRowOf(m) ==
  << [position |-> trim(m.position),
      rank |-> IF HasOrdinal(trim(m.rank)) THEN trim(m.rank) ELSE trim(m.rank) \o "th"] >>

PositionRowAt(text, i, alts) ==
  IF i = 0 THEN << >>
  ELSE PositionRowOf(PositionRankWith(text, i, alts[PositionAltAt(text, i, alts)]))

\* text.match(/\b(...)\s+(\d+(?:th|st|nd|rd)|\d+)\b/i): the leftmost match, as the row pushed
PositionRows(text, alts) ==
  PositionRowAt(text, LeftMost({ i \in 1..Len(text) : PositionAltAt(text, i, alts) # 0 }), alts)

\* if (statPart && rankPart) push(statPart.trim(), rank)
CardRowFrom(statPart, rankPart) ==
  IF statPart # "" /\ rankPart # ""
  THEN << [position |-> trim(statPart),
           rank |-> WithOrdinal(trim(rankPart), trim(rankPart) \o "th")] >>
  ELSE << >>

\* parts = fullMatch.split(/\s+/): the last part is the rank, the others the statistic
CardRowOfParts(parts) ==
  CardRowFrom(Join(SubSeq(parts, 1, Len(parts) - 1), 1), parts[Len(parts)])

CardRowOf(text, m) ==
  IF m.end = 0 THEN << >> ELSE CardRowOfParts(Tokens(SubSeq(text, m.start, m.end), 1))

\* card scan of the fallback: the row one category yields on one element
CardStatRow(text, stat) == CardRowOf(text, StatRankNext(text, 1, stat, TRUE))

RECURSIVE CardStatRows(_, _)
CardStatRows(text, k) ==
  IF k > Len(statCategories) THEN << >>
  ELSE CardStatRow(text, statCategories[k]) \o CardStatRows(text, k + 1)

CardRowsOf(text) == CardStatRows(text, 1) \o PositionRows(text, ShortPositions)

\* card scan over 'div, span, p, li, [class*="card"], [class*="item"]'
RECURSIVE CardStrategy(_, _)
CardStrategy(elements, i) ==
  IF i > Len(elements) THEN << >>
  ELSE CardRowsOf(trim(elements[i].text)) \o CardStrategy(elements, i + 1)

RowRowOf(m) ==
  IF m.end = 0 THEN << >>
  ELSE << [position |-> trim(m.position),
           rank |-> WithOrdinal(trim(m.rank), trim(m.rank) \o "th")] >>

\* second scan of the fallback: the row one category yields on one element;
\* fullMatch.split(/\s+(?=\d)/) cuts the match before its number
RowStatRow(text, stat) == RowRowOf(StatRankNext(text, 1, stat, FALSE))

RECURSIVE RowStatRows(_, _)
RowStatRows(text, k) ==
  IF k > Len(statCategories) THEN << >>
  ELSE RowStatRow(text, statCategories[k]) \o RowStatRows(text, k + 1)

RowRowsOf(text) == RowStatRows(text, 1) \o PositionRows(text, LongPositions)

\* second scan, over 'div, span, p' only
RECURSIVE RowStrategy(_, _)
RowStrategy(elements, i) ==
  IF i > Len(elements) THEN << >>
  ELSE (IF elements[i].tag \in {"div", "span", "p"}
        THEN RowRowsOf(trim(elements[i].text))
        ELSE << >>) \o RowStrategy(elements, i + 1)

\* the extraction written out inside scrapeDefenseData, on the container its
\* own locator finds
fallbackExtraction(container) ==
  IF ~container.found THEN << >>
  ELSE Unique(OrElse(OrElse(OrElse(TableStrategy(container), TextStrategy(container)),
                            CardStrategy(container.elements, 1)),
                     RowStrategy(container.elements, 1)), 1)

(***************************************************************************)
(* State                                                                   *)
(***************************************************************************)
VARIABLES
  source,       \* join: which prop scraper the prop list comes from
  props,        \* join: the prop list handed to the merge function
  defenseData,  \* join: the defense list handed to the merge function
  merged,       \* join: the list the last call returned
  calls,        \* join: number of calls made on these lists
  canonFn,      \* canonicalizers: the function applied ("" before the call)
  canonIn,      \* canonicalizers: a raw identifier x
  canonIn2,     \* canonicalizers: a second raw identifier y
  canonOut,     \* canonicalizers: canon(x)
  canonOut2,    \* canonicalizers: canon(y)
  canonTwice,   \* canonicalizers: canon(canon(x))
  pc,           \* scrapeDefenseData: position in the body
  page,         \* scrapeDefenseData: the player page of the site
  game,         \* scrapeDefenseData: team, opponent, gameTime arguments
  shown,        \* scrapeDefenseData: what the page shows now
  closed,       \* scrapeDefenseData: page.isClosed()
  defenseTabClicked,
  posIdx,       \* scrapeDefenseData: index of the loop over positions
  allDefenseRows,
  outcome,      \* scrapeDefenseData: "running", "returned" or "raised"
  result,       \* scrapeDefenseData: the list returned
  failedStep,   \* scrapeDefenseData: the step whose error reached the outer catch
  lastPass,     \* scrapeDefenseData: the last position pass and whether its filter was activated
  afterLoop,    \* scrapeDefenseData: extraction attempts made after the loop over positions
  lastExtraction, \* scrapeDefenseData: container and rows of the last extraction
  feed,         \* prop scrapers: what the site delivers (API payload or page cards)
  stage,        \* props workflow: "idle", "fetched", "scraped" or "merged"
  spreadsheet,  \* sheets: the rows of every sheet of the spreadsheet, by title
  uploaded,     \* sheets: the lists the defense scraper uploaded today, oldest first
  written       \* sheets: the last call of a props writer and how it ended

joinVars == <<source, props, defenseData, merged, calls>>

canonVars == <<canonFn, canonIn, canonIn2, canonOut, canonOut2, canonTwice>>

feedVars == <<feed, stage>>

sheetVars == <<spreadsheet, uploaded, written>>

traceVars == <<lastPass, afterLoop, lastExtraction>>

scrapeVars == <<pc, page, game, shown, closed, defenseTabClicked, posIdx,
                allDefenseRows, outcome, result, failedStep, traceVars>>

vars == <<source, props, defenseData, merged, calls,
          canonFn, canonIn, canonIn2, canonOut, canonOut2, canonTwice,
          pc, page, game, shown, closed, defenseTabClicked, posIdx,
          allDefenseRows, outcome, result, failedStep,
          lastPass, afterLoop, lastExtraction, feed, stage,
          spreadsheet, uploaded, written>>

(***************************************************************************)
(* Bounds                                                                  *)
(***************************************************************************)
MaxProps == 2

MaxDefense == 2

MaxCalls == 2

(***************************************************************************)
(* Inputs of the join                                                      *)
(***************************************************************************)
PP(playerName, team, opponent, statCategory, line, projectionId) ==
  [playerName |-> playerName, team |-> team, opponent |-> opponent,
   statCategory |-> statCategory, line |-> line, projectionId |-> projectionId]

UD(playerName, team, opponent, position, stat, line, gameTime) ==
  [playerName |-> playerName, team |-> team, opponent |-> opponent,
   position |-> position, stat |-> stat, line |-> line, gameTime |-> gameTime]

DD(team, opponent, gameTime, position, rank) ==
  [team |-> team, opponent |-> opponent, gameTime |-> gameTime,
   position |-> position, rank |-> rank]

PrizePicksPool ==
  { PP("David Pastrnak", "BOS", "TOR", "SOG", "2.5", "pp-1"),
    PP("Auston Matthews", "TOR", "BOS", "Goals", "0.5", "pp-2"),
    PP("Anze Kopitar", "LAK", "", "Points", "0.5", "pp-4"),
    PP("Mitch Marner", "TOR", "bos ", "Shots on Goal", "3.5", "pp-5") }

UnderdogPool ==
  { UD("David Pastrnak", "BOS", "TOR", "RW", "Shots on Goal", "2.5", "7:00 PM"),
    UD("Cale Makar", "COL", "TOR", "", "Blocked Shots", "1.5", ""),
    UD("Victor Hedman", "TBL", "LA", "D", "Hits", "1.5", "10:00 PM"),
    UD("Cole Caufield", "MTL", "TOR", "LW", "Shots on Goal", "3.5", "7:30 PM") }

DefensePool ==
  { DD("BOS", "TOR", "7:00 PM", "Shots on Goal", "25th"),
    DD("TOR", "BOS", "7:00 PM", "Shots on Goal", "25th"),
    DD("TOR", "BOS", "7:00 PM", "Goals Allowed", "28th"),
    DD("BOS", "TOR", "7:00 PM", "LW - Shots on Goal", "27th"),
    DD("TBL", "LAK", "10:00 PM", "Hits", "32nd"),
    DD("BOS", "TOR", "7:00 PM", "Blocks", "30th") }

\* the lists of at most n different elements of S (a scraped list holds every
\* offer, and a sheet every row, once)
SeqsUpTo(S, n) ==
  { q \in UNION { [1..k -> S] : k \in 0..n } : \A i, j \in DOMAIN q : q[i] = q[j] => i = j }

(***************************************************************************)
(* Defense scraper: one call of scrapeDefenseData                          *)
(* A page is what the site shows: before the Defense tab is opened         *)
(* (initial), after it is opened (defense) and after a position filter is  *)
(* activated (byPosition).  What is shown is a pair of containers: the one *)
(* the locator of extractDefenseDataFromPage finds and the one the locator *)
(* of the fallback extraction finds.                                       *)
(***************************************************************************)
positions == << "LW", "RW", "C", "D", "G" >>

NoContainer == [found |-> FALSE, table |-> << >>, text |-> "", elements |-> << >>]

WeakPanel ==
  [found |-> TRUE,
   table |-> << <<"Shots on Goal", "25th">>, <<"Hits", " 7th ">>, <<"Goals Allowed", "31">> >>,
   text |-> "Shots on Goal 25th\nHits 7th\nGoals Allowed 31",
   elements |-> << >>]

WeakPanelLW ==
  [found |-> TRUE,
   table |-> << <<"shots on goal", "27th">>, <<"Hits", "24">> >>,
   text |-> "shots on goal 27th\nHits 24",
   elements |-> << >>]

StrongPanel ==
  [found |-> TRUE,
   table |-> << <<"Shots on Goal", "7th">>, <<"Points", "33rd">>,
                <<"PK", "1st-2nd">>, <<"PK-1st", "2nd">> >>,
   text |-> "Shots on Goal 7th\nPoints 33rd\nPK 1st-2nd\nPK-1st 2nd",
   elements |-> << >>]

TextPanel ==
  [found |-> TRUE,
   table |-> << >>,
   text |-> "Blocked Shots 28th  Goalie Saves 27th  Points 3rd",
   elements |-> << [tag |-> "div", text |-> "Blocked Shots 28th"],
                   [tag |-> "div", text |-> "Goalie Saves 27th"],
                   [tag |-> "div", text |-> "Points 3rd"] >>]

CardPanel ==
  [found |-> TRUE,
   table |-> << >>,
   text |-> "LW 25 Hits 31 rank Center 12",
   elements |-> << [tag |-> "div", text |-> "LW 25"],
                   [tag |-> "li", text |-> "Hits 31 rank"],
                   [tag |-> "span", text |-> "Center 12"] >>]

WordPanel ==
  [found |-> TRUE,
   table |-> << >>,
   text |-> "Goalie 29",
   elements |-> << [tag |-> "p", text |-> "Goalie 29"] >>]

Shown(container) == [extract |-> container, fallback |-> container]

Nothing == Shown(NoContainer)

Site(initial, defense, lw, others) ==
  [initial |-> initial, defense |-> defense,
   byPosition |-> [p \in {positions[k] : k \in 1..Len(positions)} |->
                     IF p = "LW" THEN lw ELSE others]]

EmptySite == Site(Nothing, Nothing, Nothing, Nothing)

PagePool ==
  { Site(Nothing, Shown(WeakPanel), Shown(WeakPanelLW), Shown(WeakPanel)),
    Site(Shown(StrongPanel), Shown(StrongPanel), Shown(StrongPanel), Shown(StrongPanel)),
    Site(Nothing, Shown(TextPanel), Shown(TextPanel), Shown(TextPanel)),
    Site(Nothing, [extract |-> NoContainer, fallback |-> CardPanel],
         [extract |-> NoContainer, fallback |-> CardPanel],
         [extract |-> NoContainer, fallback |-> WordPanel]),
    EmptySite }

\* the games of the day: team, opponent and game time passed to scrapeDefenseData
GamePool ==
  { [team |-> "BOS", opponent |-> "TOR", gameTime |-> "7:00 PM"],
    [team |-> "TOR", opponent |-> "BOS", gameTime |-> "7:00 PM"] }

\* no extraction has run yet
NoExtraction == [kind |-> "none", container |-> NoContainer, tried |-> << >>, rows |-> << >>]

\* no position pass has run yet
NoPass == [position |-> "", positionSelected |-> FALSE]

\* the rows every strategy of an extraction yields on a container, in the
\* order the extraction tries them
StrategyRows(kind, container) ==
  IF kind = "fallback"
  THEN << TableStrategy(container), TextStrategy(container),
          CardStrategy(container.elements, 1), RowStrategy(container.elements, 1) >>
  ELSE << TableStrategy(container), TextStrategy(container) >>

\* extractDefenseDataFromPage or the fallback extraction ran on the container:
\* what each of its strategies yields there, and the rows it returned
Extraction(kind, container, rows) ==
  [kind |-> kind, container |-> container,
   tried |-> StrategyRows(kind, container), rows |-> rows]

ScrapeIdle ==
  /\ pc = "idle"
  /\ page = EmptySite
  /\ game = [team |-> "", opponent |-> "", gameTime |-> ""]
  /\ shown = Nothing
  /\ closed = FALSE
  /\ defenseTabClicked = FALSE
  /\ posIdx = 1
  /\ allDefenseRows = << >>
  /\ outcome = "idle"
  /\ result = << >>
  /\ failedStep = ""
  /\ lastPass = NoPass
  /\ afterLoop = 0
  /\ lastExtraction = NoExtraction

FeedIdle ==
  /\ feed = << >>
  /\ stage = "idle"

\* no writer has been called yet
NoWrite == [sheet |-> "", props |-> << >>, outcome |-> "none"]

SheetIdle ==
  /\ spreadsheet = << >>
  /\ uploaded = << >>
  /\ written = NoWrite

JoinIdle ==
  /\ source = "prizepicks"
  /\ props = <<>>
  /\ defenseData = <<>>
  /\ merged = <<>>
  /\ calls = 0

CanonIdle ==
  /\ canonFn = ""
  /\ canonIn = ""
  /\ canonIn2 = ""
  /\ canonOut = JsUndefined
  /\ canonOut2 = JsUndefined
  /\ canonTwice = JsUndefined

JoinInit ==
  /\ CanonIdle
  /\ ScrapeIdle
  /\ FeedIdle
  /\ SheetIdle
  /\ source \in {"prizepicks", "underdog"}
  /\ props \in SeqsUpTo(IF source = "prizepicks" THEN PrizePicksPool ELSE UnderdogPool, MaxProps)
  /\ defenseData \in SeqsUpTo(DefensePool, MaxDefense)
  /\ merged = <<>>
  /\ calls = 0

\* Step E of the props workflow, PrizePicks half
MergePrizePicks ==
  /\ source = "prizepicks"
  /\ calls < MaxCalls
  /\ LET r == mergePrizePicksProps(props, defenseData)
     IN  /\ merged' = r.merged
         /\ props' = r.props
         /\ defenseData' = r.defenseData
  /\ calls' = calls + 1
  /\ UNCHANGED <<source, canonVars, scrapeVars, feedVars, sheetVars>>

\* Step E of the props workflow, Underdog half
MergeUnderdog ==
  /\ source = "underdog"
  /\ calls < MaxCalls
  /\ LET r == mergeUnderdogProps(props, defenseData)
     IN  /\ merged' = r.merged
         /\ props' = r.props
         /\ defenseData' = r.defenseData
  /\ calls' = calls + 1
  /\ UNCHANGED <<source, canonVars, scrapeVars, feedVars, sheetVars>>

JoinNext == MergePrizePicks \/ MergeUnderdog

SpecJoin == JoinInit /\ [][JoinNext]_vars

(***************************************************************************)
(* Applying a canonicalizer to raw identifiers                             *)
(***************************************************************************)
\* raw identifiers as the sites and the sheet deliver them
RawIdentifiers ==
  { "TOR", "tor", " Tor ", "LA", "la\t", "ATL", "UTA", "XYZ", " xyz",
    "SOG", "sog", " SOG ", "Pts", "Fantasy Score", "Power Play Points",
    "constructor", "", "LW - Shots on Goal", "LW Shots on Goal" }

CanonInit ==
  /\ JoinIdle
  /\ ScrapeIdle
  /\ FeedIdle
  /\ SheetIdle
  /\ canonFn = ""
  /\ canonIn \in RawIdentifiers
  /\ canonIn2 \in RawIdentifiers
  /\ canonOut = JsUndefined
  /\ canonOut2 = JsUndefined
  /\ canonTwice = JsUndefined

\* canon(canon(x)): the second call is not made when the first one throws
Again(first, second) == IF first.type = "TypeError" THEN first ELSE second

ApplyUnderdogTeam ==
  /\ canonFn = ""
  /\ canonFn' = "underdog.normalizeTeamName"
  /\ canonOut' = underdog_normalizeTeamName(canonIn)
  /\ canonOut2' = underdog_normalizeTeamName(canonIn2)
  /\ canonTwice' = underdog_normalizeTeamName(underdog_normalizeTeamName(canonIn).str)
  /\ UNCHANGED <<canonIn, canonIn2, joinVars, scrapeVars, feedVars, sheetVars>>

ApplyPrizePicksTeam ==
  /\ canonFn = ""
  /\ canonFn' = "prizePicks.normalizeTeamName"
  /\ canonOut' = prizePicks_normalizeTeamName(canonIn)
  /\ canonOut2' = prizePicks_normalizeTeamName(canonIn2)
  /\ canonTwice' = prizePicks_normalizeTeamName(prizePicks_normalizeTeamName(canonIn).str)
  /\ UNCHANGED <<canonIn, canonIn2, joinVars, scrapeVars, feedVars, sheetVars>>

ApplyMatchingTeam ==
  /\ canonFn = ""
  /\ canonFn' = "normalizeTeamForMatching"
  /\ canonOut' = JsString(normalizeTeamForMatching(canonIn))
  /\ canonOut2' = JsString(normalizeTeamForMatching(canonIn2))
  /\ canonTwice' = JsString(normalizeTeamForMatching(normalizeTeamForMatching(canonIn)))
  /\ UNCHANGED <<canonIn, canonIn2, joinVars, scrapeVars, feedVars, sheetVars>>

ApplyUnderdogStat ==
  /\ canonFn = ""
  /\ canonFn' = "underdog.normalizeStatType"
  /\ canonOut' = underdog_normalizeStatType(JsString(canonIn))
  /\ canonOut2' = underdog_normalizeStatType(JsString(canonIn2))
  /\ canonTwice' = Again(underdog_normalizeStatType(JsString(canonIn)),
                         underdog_normalizeStatType(underdog_normalizeStatType(JsString(canonIn))))
  /\ UNCHANGED <<canonIn, canonIn2, joinVars, scrapeVars, feedVars, sheetVars>>

ApplyPrizePicksStat ==
  /\ canonFn = ""
  /\ canonFn' = "prizePicks.normalizeStatType"
  /\ canonOut' = prizePicks_normalizeStatType(JsString(canonIn))
  /\ canonOut2' = prizePicks_normalizeStatType(JsString(canonIn2))
  /\ canonTwice' = Again(prizePicks_normalizeStatType(JsString(canonIn)),
                         prizePicks_normalizeStatType(prizePicks_normalizeStatType(JsString(canonIn))))
  /\ UNCHANGED <<canonIn, canonIn2, joinVars, scrapeVars, feedVars, sheetVars>>

ApplyMatchingStat ==
  /\ canonFn = ""
  /\ canonFn' = "normalizeStatForMatching"
  /\ canonOut' = JsString(normalizeStatForMatching(canonIn))
  /\ canonOut2' = JsString(normalizeStatForMatching(canonIn2))
  /\ canonTwice' = JsString(normalizeStatForMatching(normalizeStatForMatching(canonIn)))
  /\ UNCHANGED <<canonIn, canonIn2, joinVars, scrapeVars, feedVars, sheetVars>>

CanonNext ==
  \/ ApplyUnderdogTeam
  \/ ApplyPrizePicksTeam
  \/ ApplyMatchingTeam
  \/ ApplyUnderdogStat
  \/ ApplyPrizePicksStat
  \/ ApplyMatchingStat

SpecCanon == CanonInit /\ [][CanonNext]_vars

ScrapeInit ==
  /\ JoinIdle
  /\ CanonIdle
  /\ FeedIdle
  /\ SheetIdle
  /\ pc = "goto"
  /\ page \in PagePool
  /\ game \in GamePool
  /\ shown = page.initial
  /\ closed = FALSE
  /\ defenseTabClicked = FALSE
  /\ posIdx = 1
  /\ allDefenseRows = << >>
  /\ outcome = "running"
  /\ result = << >>
  /\ failedStep = ""
  /\ lastPass = NoPass
  /\ afterLoop = 0
  /\ lastExtraction = NoExtraction

\* the catch block around the whole body, letting the error through
Caught_rethrown == [outcome |-> "raised", result |-> << >>]

\* the catch block around the whole body: log and return []
Caught == [outcome |-> "returned", result |-> << >>]

\* a step outside every inner try block fails
Throws(step) ==
  /\ pc' = "done"
  /\ outcome' = Caught.outcome
  /\ result' = Caught.result
  /\ failedStep' = step

\* return list
Returns(list) ==
  /\ pc' = "done"
  /\ outcome' = "returned"
  /\ result' = list
  /\ UNCHANGED failedStep

Goes(next) ==
  /\ pc' = next
  /\ UNCHANGED <<outcome, result, failedStep>>

\* rows.filter(row => isRankInRange(row.rank))
RECURSIVE InRangeFrom(_, _)
InRangeFrom(rows, i) ==
  IF i > Len(rows) THEN << >>
  ELSE (IF isRankInRange(rows[i].rank) THEN << rows[i] >> ELSE << >>) \o InRangeFrom(rows, i + 1)

InRange(rows) == InRangeFrom(rows, 1)

\* the rows of one position pass: `${position} - ${row.position}`
WithPosition(position, rows) ==
  [i \in 1..Len(rows) |->
     [position |-> position \o " - " \o rows[i].position, rank |-> rows[i].rank]]

\* allDefenseRows.map(row => ({ team, opponent, gameTime, stat: row.position, rank: row.rank }))
ToDefenseData(rows, g) ==
  [i \in 1..Len(rows) |->
     [team |-> g.team, opponent |-> g.opponent, gameTime |-> g.gameTime,
      stat |-> rows[i].position, rank |-> rows[i].rank]]

\* goto, viewport, layout fixes, tab and container listings: no inner try block
\* lets an error of these steps pass
Navigate ==
  /\ pc = "goto"
  /\ \E ok \in BOOLEAN :
       /\ closed => ~ok
       /\ IF ok THEN Goes("clickDefenseTab") ELSE Throws("goto")
  /\ UNCHANGED <<page, game, shown, closed, defenseTabClicked, posIdx, allDefenseRows>>
  /\ UNCHANGED <<joinVars, canonVars, feedVars, sheetVars, traceVars>>

\* the three click strategies, each in its own try block, then the waits and
\* the search for the position dropdown
ClickDefenseTab ==
  /\ pc = "clickDefenseTab"
  /\ \E clicked \in BOOLEAN, ok \in BOOLEAN :
       /\ closed => (~clicked /\ ~ok)
       /\ defenseTabClicked' = clicked
       /\ shown' = IF clicked THEN page.defense ELSE shown
       /\ IF ok THEN Goes("positions") ELSE Throws("clickDefenseTab")
  /\ UNCHANGED <<page, game, closed, posIdx, allDefenseRows>>
  /\ UNCHANGED <<joinVars, canonVars, feedVars, sheetVars, traceVars>>

\* one turn of the loop over positions; an error inside the turn is caught
\* and the loop goes on
ProcessPosition ==
  /\ pc = "positions"
  /\ \E positionSelected \in BOOLEAN, ok \in BOOLEAN :
       LET position == positions[posIdx]
           view == IF positionSelected THEN page.byPosition[position] ELSE shown
           filteredRows == InRange(extractDefenseDataFromPage(view.extract))
       IN  /\ closed => (~positionSelected /\ ~ok)
           /\ shown' = view
           /\ allDefenseRows' = IF ok THEN allDefenseRows \o WithPosition(position, filteredRows)
                                ELSE allDefenseRows
           /\ lastPass' = [position |-> position, positionSelected |-> positionSelected]
           /\ lastExtraction' =
                IF ok THEN Extraction("extract", view.extract,
                                      extractDefenseDataFromPage(view.extract))
                ELSE lastExtraction
  /\ IF posIdx < Len(positions)
     THEN posIdx' = posIdx + 1 /\ Goes("positions")
     ELSE posIdx' = posIdx /\ Goes("unfiltered")
  /\ UNCHANGED <<page, game, closed, defenseTabClicked, afterLoop>>
  /\ UNCHANGED <<joinVars, canonVars, feedVars, sheetVars>>

\* if the position passes found nothing: one extraction without a position
UnfilteredPass ==
  /\ pc = "unfiltered"
  /\ IF Len(allDefenseRows) = 0
     THEN \E ok \in BOOLEAN :
            /\ closed => ~ok
            /\ afterLoop' = afterLoop + 1
            /\ IF ok
               THEN /\ allDefenseRows' = InRange(extractDefenseDataFromPage(shown.extract))
                    /\ lastExtraction' = Extraction("extract", shown.extract,
                                                    extractDefenseDataFromPage(shown.extract))
                    /\ Goes("settle")
               ELSE /\ UNCHANGED <<allDefenseRows, lastExtraction>>
                    /\ Throws("unfiltered")
     ELSE /\ UNCHANGED <<allDefenseRows, afterLoop, lastExtraction>>
          /\ Goes("settle")
  /\ UNCHANGED <<page, game, shown, closed, defenseTabClicked, posIdx, lastPass>>
  /\ UNCHANGED <<joinVars, canonVars, feedVars, sheetVars>>

\* wait for the panel (errors caught), wait 3 s, test whether the Defense tab
\* is active, click it again if not (errors caught)
Settle ==
  /\ pc = "settle"
  /\ \E ok \in BOOLEAN, defenseTabActive \in BOOLEAN, clickedAgain \in BOOLEAN :
       /\ closed => ~ok
       /\ ~ok => (~defenseTabActive /\ ~clickedAgain)
       /\ clickedAgain => ~defenseTabActive
       /\ shown' = IF clickedAgain THEN page.defense ELSE shown
       /\ IF ok THEN Goes("isClosed") ELSE Throws("settle")
  /\ UNCHANGED <<page, game, closed, defenseTabClicked, posIdx, allDefenseRows>>
  /\ UNCHANGED <<joinVars, canonVars, feedVars, sheetVars, traceVars>>

\* if (page.isClosed()) return []
CheckClosed ==
  /\ pc = "isClosed"
  /\ IF closed THEN Returns(<< >>) ELSE Goes("fallback")
  /\ UNCHANGED <<page, game, shown, closed, defenseTabClicked, posIdx, allDefenseRows>>
  /\ UNCHANGED <<joinVars, canonVars, feedVars, sheetVars, traceVars>>

\* if there is still no row: the fallback extraction, whose rows are all pushed
Fallback ==
  /\ pc = "fallback"
  /\ IF Len(allDefenseRows) = 0
     THEN \E ok \in BOOLEAN :
            /\ closed => ~ok
            /\ afterLoop' = afterLoop + 1
            /\ IF ok
               THEN /\ allDefenseRows' = allDefenseRows \o fallbackExtraction(shown.fallback)
                    /\ lastExtraction' = Extraction("fallback", shown.fallback,
                                                    fallbackExtraction(shown.fallback))
                    /\ Goes("finish")
               ELSE /\ UNCHANGED <<allDefenseRows, lastExtraction>>
                    /\ Throws("fallback")
     ELSE /\ UNCHANGED <<allDefenseRows, afterLoop, lastExtraction>>
          /\ Goes("finish")
  /\ UNCHANGED <<page, game, shown, closed, defenseTabClicked, posIdx, lastPass>>
  /\ UNCHANGED <<joinVars, canonVars, feedVars, sheetVars>>

\* no row: dump the page and return []; otherwise return the records
Finish ==
  /\ pc = "finish"
  /\ IF Len(allDefenseRows) = 0
     THEN \E ok \in BOOLEAN :
            /\ closed => ~ok
            /\ IF ok THEN Returns(<< >>) ELSE Throws("finish")
     ELSE Returns(ToDefenseData(allDefenseRows, game))
  /\ UNCHANGED <<page, game, shown, closed, defenseTabClicked, posIdx, allDefenseRows>>
  /\ UNCHANGED <<joinVars, canonVars, feedVars, sheetVars, traceVars>>

\* the browser page is closed while the call runs
ClosePage ==
  /\ pc \notin {"idle", "done"}
  /\ ~closed
  /\ closed' = TRUE
  /\ UNCHANGED <<pc, page, game, shown, defenseTabClicked, posIdx, allDefenseRows,
                 outcome, result, failedStep>>
  /\ UNCHANGED <<joinVars, canonVars, feedVars, sheetVars, traceVars>>

ScrapeStep ==
  \/ Navigate
  \/ ClickDefenseTab
  \/ ProcessPosition
  \/ UnfilteredPass
  \/ Settle
  \/ CheckClosed
  \/ Fallback
  \/ Finish

ScrapeNext ==
  \/ Navigate
  \/ ClickDefenseTab
  \/ ProcessPosition
  \/ UnfilteredPass
  \/ Settle
  \/ CheckClosed
  \/ Fallback
  \/ Finish
  \/ ClosePage

SpecScrape == ScrapeInit /\ [][ScrapeNext]_vars


(***************************************************************************)
(* Properties of the join                                                  *)
(***************************************************************************)
Returned == calls >= 1

\* the rank the join computes for a prop of the current list
StatOf(prop) == IF source = "prizepicks" THEN prop.statCategory ELSE prop.stat

StrengthOf(prop) == OrNA(findDefenseStrength(defenseData, prop.team, prop.opponent, StatOf(prop)))

\* C1: mergePrizePicksProps and mergeUnderdogProps return exactly one merged
\* record per input prop, and the i-th record is built from the i-th prop.
C1_OneRecordPerPropInOrder ==
  Returned =>
    /\ Len(merged) = Len(props)
    /\ \A i \in 1..Len(props) :
         /\ merged[i].player = props[i].playerName
         /\ merged[i].team = props[i].team
         /\ merged[i].opponent = props[i].opponent
         /\ merged[i].stat = StatOf(props[i])
         /\ merged[i].line = props[i].line
         /\ merged[i].defenseStrength = StrengthOf(props[i])

\* two different props were merged, one matched and one not
C1_Witness ==
  /\ Returned
  /\ Len(props) = 2
  /\ props[1] # props[2]
  /\ merged[1].defenseStrength = "NA"
  /\ merged[2].defenseStrength # "NA"

\* The statistic a label stands for: the alias group that lists the label
\* (after the join's normalization and without a position prefix such as
\* "LW - "), or the normalized label itself when no group lists it.
StripPositionPrefix(label) ==
  IF \E pos \in {"LW - ", "RW - ", "C - ", "D - ", "G - "} :
        Len(label) > Len(pos) /\ SubSeq(label, 1, Len(pos)) = pos
  THEN LET pos == CHOOSE q \in {"LW - ", "RW - ", "C - ", "D - ", "G - "} :
                     Len(label) > Len(q) /\ SubSeq(label, 1, Len(q)) = q
       IN  SubSeq(label, Len(pos) + 1, Len(label))
  ELSE label

StatisticOf(label) ==
  LET n == normalizeStatForMatching(StripPositionPrefix(label))
      Lists(k) == n = statAliases[k].key
                    \/ \E a \in 1..Len(statAliases[k].aliases) : n = statAliases[k].aliases[a]
  IN  IF \E k \in 1..Len(statAliases) : Lists(k)
      THEN statAliases[CHOOSE k \in 1..Len(statAliases) : Lists(k)].key
      ELSE n

SameStatisticRecords(m) ==
  { i \in 1..Len(defenseData) :
      /\ normalizeTeamForMatching(defenseData[i].opponent) = normalizeTeamForMatching(m.opponent)
      /\ StatisticOf(defenseData[i].position) = StatisticOf(m.stat) }

\* C2: for every prop with a known opponent and statistic the rank attached
\* is the rank of a defense record of that opponent describing the same
\* statistic, and "NA" when no such record exists.
C2_RankOfSameStatistic ==
  Returned =>
    \A i \in 1..Len(merged) :
       (merged[i].opponent # "" /\ merged[i].stat # "") =>
          \/ merged[i].defenseStrength = "NA"
          \/ \E j \in SameStatisticRecords(merged[i]) :
                defenseData[j].rank = merged[i].defenseStrength

\* the prop and the record of the scenario, and the record of the same
\* game scraped from the prop's own team page
ScenarioProp == PP("David Pastrnak", "BOS", "TOR", "SOG", "2.5", "pp-1")

ScenarioRecord == DD("TOR", "BOS", "7:00 PM", "Shots on Goal", "25th")

OpponentRecord == DD("BOS", "TOR", "7:00 PM", "Shots on Goal", "25th")

ScenarioLookup ==
  findDefenseStrength(defenseData, ScenarioProp.team, ScenarioProp.opponent, ScenarioProp.statCategory)

\* C3 as stated: the prop {BOS, opponent TOR, SOG, 2.5} joined against the
\* single record {team TOR, opponent BOS, Shots on Goal, 25th} yields "25th",
\* found by the alias forward pass.
C3_ScenarioAsStated ==
  (Returned /\ source = "prizepicks" /\ props = <<ScenarioProp>> /\ defenseData = <<ScenarioRecord>>) =>
     /\ merged[1].defenseStrength = "25th"
     /\ ScenarioLookup.tier = 3

\* C3 amended: joined against the single record whose opponent is the prop's
\* opponent, {team BOS, opponent TOR, Shots on Goal, 25th}, the prop receives
\* "25th" from the alias forward pass (not the exact or the partial pass);
\* joined against {team TOR, opponent BOS, ...} it receives "NA".
C3_ScenarioByOpponent ==
  (Returned /\ source = "prizepicks" /\ props = <<ScenarioProp>>) =>
     /\ defenseData = <<OpponentRecord>> =>
          (merged[1].defenseStrength = "25th" /\ ScenarioLookup.tier = 3)
     /\ defenseData = <<ScenarioRecord>> =>
          (merged[1].defenseStrength = "NA" /\ ScenarioLookup.tier = 0)

C3_Witness ==
  /\ Returned
  /\ source = "prizepicks"
  /\ props = <<ScenarioProp>>
  /\ defenseData = <<OpponentRecord>>
  /\ merged[1].defenseStrength = "25th"

C5_EmptyDefenseAllNA ==
  (Returned /\ defenseData = <<>>) =>
    /\ Len(merged) = Len(props)
    /\ \A i \in 1..Len(merged) : merged[i].defenseStrength = "NA"

C5_Witness ==
  /\ Returned
  /\ defenseData = <<>>
  /\ Len(merged) = 2
  /\ \E i \in 1..Len(props) : props[i].opponent # ""

TeamCanonicalizers ==
  { "underdog.normalizeTeamName", "prizePicks.normalizeTeamName", "normalizeTeamForMatching" }

StatCanonicalizers == { "underdog.normalizeStatType", "prizePicks.normalizeStatType" }

\* C9: the team and the stat canonicalizers return a string for every input
\* string, without throwing, and canon(canon(x)) = canon(x).
C9_TotalAndIdempotent ==
  canonFn \in (TeamCanonicalizers \cup StatCanonicalizers) =>
    /\ canonOut.type = "string"
    /\ canonTwice = canonOut

\* the keys of the alias table a team canonicalizer looks its argument up in
TeamTableKeys(fn) ==
  CASE fn = "underdog.normalizeTeamName"   -> Keys(underdog_teamMap)
    [] fn = "prizePicks.normalizeTeamName" -> Keys(prizePicks_teamMap)
    [] fn = "normalizeTeamForMatching"     -> DOMAIN teamVariations

\* x and y differ only in letter case and surrounding white space
SameUpToCaseAndSpace(x, y) == toLowerCase(trim(x)) = toLowerCase(trim(y))

\* C10: a team canonicalizer gives the same code to two inputs that differ
\* only in letter case or surrounding white space, and returns an input that
\* is not in its alias table upper-cased and trimmed, otherwise unchanged.
C10_TeamLookupCaseAndSpaceBlind ==
  canonFn \in TeamCanonicalizers =>
    /\ SameUpToCaseAndSpace(canonIn, canonIn2) => canonOut = canonOut2
    /\ toUpperCase(trim(canonIn)) \notin TeamTableKeys(canonFn) =>
         canonOut = JsString(toUpperCase(trim(canonIn)))

\* " xyz" and "XYZ" went through a team canonicalizer
C10_Witness ==
  /\ canonFn \in TeamCanonicalizers
  /\ canonIn = " xyz"
  /\ canonIn2 = "XYZ"
  /\ canonOut = JsString("XYZ")
  /\ canonOut2 = canonOut

(***************************************************************************)
(* Properties of scrapeDefenseData                                         *)
(***************************************************************************)
\* the number a rank text shows lies in the weak band 24..32
InWeakBand(rank) ==
  /\ FirstNumber(rank) # ""
  /\ parseInt(FirstNumber(rank)) \in MinWeakRank..MaxWeakRank

\* C6: every record scrapeDefenseData returns, whichever pass produced it
\* (position passes, unfiltered pass, fallback extraction), has a rank whose
\* number lies in 24..32.
C6_ReturnedRanksInBand ==
  (pc = "done" /\ outcome = "returned") =>
    \A i \in 1..Len(result) : InWeakBand(result[i].rank)

\* C7: scrapeDefenseData never raises to its caller: whichever step fails,
\* the call goes on or ends by returning a list, and it is never stuck.
C7_NeverRaises ==
  /\ outcome # "raised"
  /\ pc = "done" => (outcome = "returned" /\ (failedStep # "" => result = << >>))
  /\ pc \notin {"idle", "done"} => ENABLED ScrapeStep

\* a step failed after rows had been collected, and the call returned
C7_Witness ==
  /\ pc = "done"
  /\ failedStep = "settle"
  /\ Len(allDefenseRows) > 0
  /\ outcome = "returned"
  /\ result = << >>

\* the alias table a stat canonicalizer looks its argument up in
StatTable(fn) ==
  CASE fn = "underdog.normalizeStatType"   -> underdog_statMap
    [] fn = "prizePicks.normalizeStatType" -> prizePicks_statMap

\* C11: a stat canonicalizer resolves an alias to its canonical category
\* whatever the letter case and surrounding white space of the input ('SOG',
\* 'sog' and ' SOG ' give the same category), and an input its table does
\* not list passes through as a string.
C11_StatLookupCaseAndSpaceBlind ==
  canonFn \in StatCanonicalizers =>
    /\ \A e \in StatTable(canonFn) :
         SameUpToCaseAndSpace(canonIn, e[1]) => canonOut = JsString(e[2])
    /\ (\A e \in StatTable(canonFn) : ~SameUpToCaseAndSpace(canonIn, e[1])) =>
         (canonOut.type = "string" /\ SameUpToCaseAndSpace(canonOut.str, canonIn))

(***************************************************************************)
(* Prop scrapers: numbers                                                  *)
(* A JavaScript number is kept to one decimal place: tenths = 25 is 2.5.   *)
(***************************************************************************)
JsNumber(tenths) == [type |-> "number", nan |-> FALSE, tenths |-> tenths]

JsNaN == [type |-> "number", nan |-> TRUE, tenths |-> 0]

\* the truthiness test of || on a string, a number or undefined
TruthyLine(v) ==
  IF v.type = "number" THEN ~v.nan /\ v.tenths # 0 ELSE Truthy(v)

\* a || b || c || d || 0
RECURSIVE FirstTruthyOrZero(_, _)
FirstTruthyOrZero(values, i) ==
  IF i > Len(values) THEN JsNumber(0)
  ELSE IF TruthyLine(values[i]) THEN values[i]
  ELSE FirstTruthyOrZero(values, i + 1)

\* a || b || c || '' on strings
RECURSIVE FirstNonEmpty(_, _)
FirstNonEmpty(strings, i) ==
  IF i > Len(strings) THEN ""
  ELSE IF strings[i] # "" THEN strings[i]
  ELSE FirstNonEmpty(strings, i + 1)

\* the first decimal digit after the digits that end at e (0 if none)
FirstDecimal(s, e) ==
  IF Slice(s, e + 1, e + 1) = "." /\ Slice(s, e + 2, e + 2) \in DigitSet
  THEN DigitValue[Char(s, e + 2)] ELSE 0

\* the number whose digits start at j, with the sign given
UnsignedFloat(s, j, sign) ==
  IF Slice(s, j, j) \in DigitSet
  THEN JsNumber(sign * (10 * parseInt(SubSeq(s, j, DigitRunEnd(s, j)))
                        + FirstDecimal(s, DigitRunEnd(s, j))))
  ELSE IF Slice(s, j, j) = "." /\ Slice(s, j + 1, j + 1) \in DigitSet
  THEN JsNumber(sign * FirstDecimal(s, j - 1))
  ELSE JsNaN

SignedFloat(s, i) ==
  IF i = 0 THEN JsNaN
  ELSE IF Char(s, i) = "-" THEN UnsignedFloat(s, i + 1, -1)
  ELSE IF Char(s, i) = "+" THEN UnsignedFloat(s, i + 1, 1)
  ELSE UnsignedFloat(s, i, 1)

\* parseFloat(v): leading white space, a sign, digits and a fraction
parseFloat(v) ==
  IF v.type = "number" THEN v
  ELSE IF v.type = "string" THEN SignedFloat(v.str, FirstInk(v.str))
  ELSE JsNaN

\* x > 0 on a JavaScript number (false for NaN)
Positive(x) == ~x.nan /\ x.tenths > 0

(***************************************************************************)
(* PrizePicks scraper (collectProps.ts, scrapePrizePicksProps)             *)
(* The API answers with projections (data) and the resources they refer   *)
(* to (included). A relationship is the id it points to ("" when absent), *)
(* an attribute a string ("" when absent) or, for a line, a JavaScript    *)
(* value.                                                                  *)
(***************************************************************************)
prizePicks_nhlTeams ==
  { "ARI", "BOS", "BUF", "CGY", "CAR", "CHI", "COL", "CBJ", "DAL", "DET",
    "EDM", "FLA", "LAK", "LA", "MIN", "MTL", "NSH", "NJD", "NJ", "NYI", "NYR",
    "OTT", "PHI", "PIT", "SJS", "SJ", "SEA", "STL", "TBL", "TB", "TOR",
    "VAN", "VGK", "VEG", "WSH", "WAS", "WPG", "WIN", "ANA" }

allowedStats ==
  << "Shots on Goal", "Faceoffs Won", "Hits", "Goals", "Points", "Assists",
     "Blocked Shots", "Goals Allowed", "Goalie Saves" >>

\* allowedStats.some(allowed => statLower === a || statLower.includes(a) || a.includes(statLower))
isAllowedStat(stat) ==
  \E i \in 1..Len(allowedStats) :
    \/ toLowerCase(stat) = toLowerCase(allowedStats[i])
    \/ includes(toLowerCase(stat), toLowerCase(allowedStats[i]))
    \/ includes(toLowerCase(allowedStats[i]), toLowerCase(stat))

\* map.get(id): the value stored under id, or the default given
MapGet(map, id, default) ==
  IF id \in Keys(map) THEN (CHOOSE e \in map : e[1] = id)[2] ELSE default

NoPlayer == [name |-> "", team |-> "", found |-> FALSE]

NoGame == [home_team |-> "", away_team |-> "", attr_home_team |-> "",
           attr_away_team |-> "", found |-> FALSE]

\* playerMap, teamMap, gameMap and leagueMap built from included
playerMap(included) ==
  { << r.id, [name |-> r.name, team |-> r.team, found |-> TRUE] >> :
      r \in { x \in included : x.type \in {"new_player", "player"} } }

teamMap(included) ==
  { << r.id, r.abbreviation >> : r \in { x \in included : x.type \in {"new_team", "team"} } }

gameMap(included) ==
  { << r.id, [home_team |-> r.home_team, away_team |-> r.away_team,
              attr_home_team |-> r.attr_home_team, attr_away_team |-> r.attr_away_team,
              found |-> TRUE] >> :
      r \in { x \in included : x.type \in {"new_game", "game"} } }

leagueMap(included) ==
  { << r.id, toUpperCase(r.name) = "NHL" \/ includes(toUpperCase(r.name), "HOCKEY") >> :
      r \in { x \in included : x.type \in {"new_league", "league", "sport"} } }

\* the league test of a projection
isNHL(projection, included) ==
  \/ /\ projection.leagueId # ""
     /\ \/ MapGet(leagueMap(included), projection.leagueId, FALSE)
        \/ projection.leagueId = "7"
  \/ projection.league = "7"
  \/ toUpperCase(projection.league) = "NHL"

\* normalizeTeamName(teamMap.get(id) || '') for a relationship ('' if absent)
TeamOfRel(id, included) ==
  IF id = "" THEN ""
  ELSE prizePicks_normalizeTeamName(MapGet(teamMap(included), id, "")).str

\* home or away team of a game: the relationship, else the attribute
GameTeam(rel, attr, included) ==
  IF TeamOfRel(rel, included) # "" THEN TeamOfRel(rel, included)
  ELSE prizePicks_normalizeTeamName(attr).str

\* the other team (not the player's team)
OtherTeam(team, homeTeam, awayTeam) ==
  IF homeTeam # "" /\ awayTeam # "" THEN (IF team = homeTeam THEN awayTeam ELSE homeTeam)
  ELSE IF homeTeam # "" /\ team # homeTeam THEN homeTeam
  ELSE IF awayTeam # "" /\ team # awayTeam THEN awayTeam
  ELSE ""

OpponentFromGame(team, g, included) ==
  IF ~g.found THEN ""
  ELSE OtherTeam(team,
                 GameTeam(g.home_team, g.attr_home_team, included),
                 GameTeam(g.away_team, g.attr_away_team, included))

\* the opponent of a projection: relationships, then attributes, then the game
OpponentFromAttrs(projection) ==
  prizePicks_normalizeTeamName(
    FirstNonEmpty(<< projection.attr_opponent, projection.attr_away_team,
                     projection.attr_home_team >>, 1)).str

OpponentFromRels(projection, included) ==
  TeamOfRel(FirstNonEmpty(<< projection.opponent_team, projection.away_team,
                             projection.home_team >>, 1), included)

OpponentOf(projection, team, included) ==
  IF OpponentFromRels(projection, included) # "" THEN OpponentFromRels(projection, included)
  ELSE IF OpponentFromAttrs(projection) # "" THEN OpponentFromAttrs(projection)
  ELSE IF projection.game = "" THEN ""
  ELSE OpponentFromGame(team, MapGet(gameMap(included), projection.game, NoGame), included)

\* the date test: a date more than one day from today skips the projection;
\* a missing date and a date that does not parse do not
DateSkips(date) == date = "far"

LineOf(projection) ==
  parseFloat(FirstTruthyOrZero(<< projection.line, projection.line_score,
                                  projection.over_under, projection.flash_sale_line_score >>, 1))

\* the last test before props.push, without line > 0
EmitGuard_anyLine(playerName, team, statCategory, line) ==
  playerName # "" /\ team # "" /\ statCategory # ""

\* if (playerName && team && statCategory && line > 0)
EmitGuard(playerName, team, statCategory, line) ==
  playerName # "" /\ team # "" /\ statCategory # "" /\ Positive(line)

\* what one pass of the loop does with a projection whose statistic, player
\* and team are known: << >> or the prop pushed
PushOf(projection, player, team, statCategory, opponent) ==
  IF opponent # "" /\ opponent \notin prizePicks_nhlTeams THEN << >>
  ELSE IF DateSkips(projection.date) THEN << >>
  ELSE IF EmitGuard(player.name, team, statCategory, LineOf(projection))
  THEN << PP(player.name, team, opponent, statCategory, LineOf(projection), projection.id) >>
  ELSE << >>

PushOfPlayer(projection, player, team, statCategory, included) ==
  IF ~player.found THEN << >>
  ELSE IF team \notin prizePicks_nhlTeams THEN << >>
  ELSE PushOf(projection, player, team, statCategory, OpponentOf(projection, team, included))

PushOfStat(projection, statCategory, player, included) ==
  IF ~isAllowedStat(statCategory) THEN << >>
  ELSE PushOfPlayer(projection, player,
                    prizePicks_normalizeTeamName(player.team).str, statCategory, included)

\* statCategory.toLowerCase() needs a string
StatThrows(projection) ==
  /\ projection.type \in {"new_projection", "projection"}
  /\ prizePicks_normalizeStatType(JsString(projection.stat_type)).type # "string"

PropsOfProjection(projection, included) ==
  IF projection.type \notin {"new_projection", "projection"} THEN << >>
  ELSE IF ~isNHL(projection, included) THEN << >>
  ELSE PushOfStat(projection,
                  prizePicks_normalizeStatType(JsString(projection.stat_type)).str,
                  MapGet(playerMap(included), projection.player, NoPlayer), included)

RECURSIVE PropsOfProjections(_, _, _)
PropsOfProjections(projections, included, i) ==
  IF i > Len(projections) THEN << >>
  ELSE PropsOfProjection(projections[i], included)
         \o PropsOfProjections(projections, included, i + 1)

\* scrapePrizePicksProps on an answer of the API: an error anywhere in the
\* body is caught and the function returns []
scrapePrizePicksProps(data) ==
  IF \E i \in 1..Len(data.data) :
       isNHL(data.data[i], data.included) /\ StatThrows(data.data[i])
  THEN << >>
  ELSE PropsOfProjections(data.data, data.included, 1)

(***************************************************************************)
(* Underdog scraper (extractPropsFromPage)                                 *)
(* A card is what the page evaluation reads from one element: the player  *)
(* name its selectors settle on, the card text, the captures of the vs/@   *)
(* patterns on the card and its parents in the order they are tried, the   *)
(* matchups of the matchup patterns, the position and the game time.       *)
(***************************************************************************)
statKeywords ==
  << "Points", "Goals", "Assists", "Shots on Goal", "Shots", "SOG",
     "Hits", "Blocked Shots", "Blocks", "Time On Ice", "TOI",
     "Faceoffs Won", "FOW", "Faceoffs Lost", "FOL", "Faceoffs",
     "Goals Allowed", "Saves", "Fantasy Score" >>

underdog_nhlTeams ==
  << "ARI", "BOS", "BUF", "CGY", "CAR", "CHI", "COL", "CBJ", "DAL", "DET",
     "EDM", "FLA", "LAK", "LA", "MIN", "MTL", "NSH", "NJD", "NJ", "NYI", "NYR",
     "OTT", "PHI", "PIT", "SJS", "SJ", "SEA", "STL", "TBL", "TB", "TOR",
     "UTA", "VAN", "VGK", "VEG", "WSH", "WAS", "WPG", "WIN" >>

\* nhlTeams.includes(t)
IsUnderdogTeam(t) == \E i \in 1..Len(underdog_nhlTeams) : underdog_nhlTeams[i] = t

\* the first keyword the lower-cased card text contains ('' if none)
RECURSIVE KeywordOf(_, _)
KeywordOf(cardText, i) ==
  IF i > Len(statKeywords) THEN ""
  ELSE IF includes(toLowerCase(cardText), toLowerCase(statKeywords[i])) THEN statKeywords[i]
  ELSE KeywordOf(cardText, i + 1)

\* cardText.match(/(\d+\.?\d*)/) and parseFloat of the match (0 if none)
LineValueOf(cardText) ==
  IF FirstDigit(cardText) = 0 THEN JsNumber(0)
  ELSE UnsignedFloat(cardText, FirstDigit(cardText), 1)

\* new RegExp('\\b' + word + '\\b', 'i') matches at index i
WordAt(text, word, i) ==
  /\ toUpperCase(Slice(text, i, i + Len(word) - 1)) = word
  /\ (i = 1 \/ Char(text, i - 1) \notin WordChars)
  /\ WordEndsAt(text, i + Len(word) - 1)

TestWord(text, word) == \E i \in 1..(Len(text) - Len(word) + 1) : WordAt(text, word, i)

\* the first abbreviation of nhlTeams the card text holds as a word ('' if none)
RECURSIVE TeamOfCard(_, _)
TeamOfCard(cardText, i) ==
  IF i > Len(underdog_nhlTeams) THEN ""
  ELSE IF TestWord(cardText, underdog_nhlTeams[i]) THEN underdog_nhlTeams[i]
  ELSE TeamOfCard(cardText, i + 1)

\* index of the last character of the run of word characters that starts at i
RECURSIVE WordRunEnd(_, _)
WordRunEnd(s, i) ==
  IF i < Len(s) /\ Char(s, i + 1) \in WordChars THEN WordRunEnd(s, i + 1) ELSE i

\* the maximal runs of word characters of s, in order
RECURSIVE Words(_, _)
Words(s, i) ==
  IF i > Len(s) THEN << >>
  ELSE IF Char(s, i) \notin WordChars THEN Words(s, i + 1)
  ELSE << SubSeq(s, i, WordRunEnd(s, i)) >> \o Words(s, WordRunEnd(s, i) + 1)

\* matches /\b([A-Z]{2,4})\b/
IsAbbreviation(w) ==
  /\ Len(w) >= 2
  /\ Len(w) <= 4
  /\ \A k \in 1..Len(w) : Char(w, k) \in UpperSet

\* strategies 1, 2 and 3: the first candidate that is an NHL team other than the team
RECURSIVE FirstOtherTeam(_, _, _)
FirstOtherTeam(candidates, team, i) ==
  IF i > Len(candidates) THEN ""
  ELSE IF /\ toUpperCase(candidates[i]) # toUpperCase(team)
          /\ IsUnderdogTeam(toUpperCase(candidates[i]))
  THEN toUpperCase(candidates[i])
  ELSE FirstOtherTeam(candidates, team, i + 1)

\* strategy 3: the abbreviations of the card text
AbbreviationsOf(cardText) ==
  SelectSeq(Words(cardText, 1), IsAbbreviation)

\* strategy 4: the other side of the first matchup the team is a side of
RECURSIVE OpponentOfMatchups(_, _, _)
OpponentOfMatchups(matchups, team, i) ==
  IF i > Len(matchups) THEN ""
  ELSE IF /\ toUpperCase(matchups[i][1]) = toUpperCase(team)
          /\ toUpperCase(matchups[i][2]) # toUpperCase(team)
          /\ IsUnderdogTeam(toUpperCase(matchups[i][2]))
  THEN toUpperCase(matchups[i][2])
  ELSE IF /\ toUpperCase(matchups[i][2]) = toUpperCase(team)
          /\ toUpperCase(matchups[i][1]) # toUpperCase(team)
          /\ IsUnderdogTeam(toUpperCase(matchups[i][1]))
  THEN toUpperCase(matchups[i][1])
  ELSE OpponentOfMatchups(matchups, team, i + 1)

\* the opponent of a card before the final check
OpponentCandidate(card, team) ==
  IF FirstOtherTeam(card.vs, team, 1) # "" THEN FirstOtherTeam(card.vs, team, 1)
  ELSE IF FirstOtherTeam(AbbreviationsOf(card.text), team, 1) # ""
  THEN FirstOtherTeam(AbbreviationsOf(card.text), team, 1)
  ELSE OpponentOfMatchups(card.matchups, team, 1)

\* final check: an opponent equal to the team is dropped
OpponentOfCard(card, team) ==
  IF OpponentCandidate(card, team) = toUpperCase(team) THEN ""
  ELSE OpponentCandidate(card, team)

\* the raw prop of a card, if it has the essential data
RawPropOf(card, statCategory, lineValue, team) ==
  IF card.name # "" /\ statCategory # "" /\ Positive(lineValue) /\ team # ""
  THEN << UD(trim(card.name), toUpperCase(team), OpponentOfCard(card, team),
             card.position, statCategory, lineValue, card.gameTime) >>
  ELSE << >>

RECURSIVE RawPropsOf(_, _)
RawPropsOf(cards, i) ==
  IF i > Len(cards) THEN << >>
  ELSE RawPropOf(cards[i], KeywordOf(cards[i].text, 1), LineValueOf(cards[i].text),
                 TeamOfCard(cards[i].text, 1))
         \o RawPropsOf(cards, i + 1)

\* the map step: team, opponent and statistic normalized
NormalizedProp(prop) ==
  UD(prop.playerName,
     underdog_normalizeTeamName(prop.team).str,
     IF prop.opponent # "" THEN underdog_normalizeTeamName(prop.opponent).str ELSE "",
     prop.position,
     underdog_normalizeStatType(JsString(prop.stat)).str,
     prop.line,
     prop.gameTime)

\* the filter step
KeepProp(prop) ==
  /\ prop.playerName # "" /\ prop.team # "" /\ prop.stat # "" /\ Positive(prop.line)
  /\ isAllowedStat(prop.stat)
  /\ ~(prop.opponent # "" /\ prop.opponent = prop.team)

SameProp(p, q) ==
  /\ p.playerName = q.playerName
  /\ p.team = q.team
  /\ p.stat = q.stat
  /\ p.line = q.line

\* the props that are the first of their player, team, statistic and line
RECURSIVE UniqueProps(_, _)
UniqueProps(self, index) ==
  IF index > Len(self) THEN << >>
  ELSE (IF \E j \in 1..(index - 1) : SameProp(self[j], self[index])
        THEN << >> ELSE << self[index] >>) \o UniqueProps(self, index + 1)

NormalizedProps(raw) == [i \in 1..Len(raw) |-> NormalizedProp(raw[i])]

extractPropsFromPage(cards) ==
  UniqueProps(SelectSeq(NormalizedProps(RawPropsOf(cards, 1)), KeepProp), 1)

(***************************************************************************)
(* Props workflow (collectProps.ts, main): steps C, D and E                *)
(***************************************************************************)
\* getOpponentFromSchedule(team, schedule) || '' 
getOpponentFromSchedule(team, schedule) ==
  IF team = "" THEN ""
  ELSE MapGet(schedule, underdog_normalizeTeamName(team).str, "")

\* a prop without opponent gets the opponent the schedule names for its team
FillOpponent(prop, schedule) ==
  IF prop.opponent = "" /\ prop.team # "" /\ getOpponentFromSchedule(prop.team, schedule) # ""
  THEN [prop EXCEPT !.opponent = getOpponentFromSchedule(prop.team, schedule)]
  ELSE prop

FillOpponents(list, schedule) == [i \in 1..Len(list) |-> FillOpponent(list[i], schedule)]

\* Bounds
MaxFeed == 2

\* Resources of a sample answer of the API
Resource(type, id, name, team, abbreviation, home_team, away_team) ==
  [type |-> type, id |-> id, name |-> name, team |-> team, abbreviation |-> abbreviation,
   home_team |-> home_team, away_team |-> away_team,
   attr_home_team |-> "", attr_away_team |-> ""]

Included ==
  { Resource("new_player", "pl-1", "David Pastrnak", "BOS", "", "", ""),
    Resource("new_player", "pl-2", "Auston Matthews", "tor", "", "", ""),
    Resource("new_player", "pl-3", "", "BOS", "", "", ""),
    Resource("new_player", "pl-4", "Alperen Sengun", "HOU", "", "", ""),
    Resource("new_player", "pl-5", "Clayton Keller", "uta", "", "", ""),
    Resource("team", "tm-bos", "", "", "BOS", "", ""),
    Resource("team", "tm-tor", "", "", "TOR", "", ""),
    Resource("team", "tm-hou", "", "", "HOU", "", ""),
    Resource("new_game", "gm-1", "", "", "", "tm-bos", "tm-tor"),
    Resource("league", "lg-nhl", "NHL", "", "", "", ""),
    Resource("league", "lg-nba", "NBA", "", "", "", "") }

\* a projection of the NHL for David Pastrnak, 2.5 shots on goal, no opponent
BaseProjection ==
  [id |-> "pp-0", type |-> "new_projection", leagueId |-> "lg-nhl", league |-> "",
   stat_type |-> "SOG", line |-> JsUndefined, line_score |-> JsNumber(25),
   over_under |-> JsUndefined, flash_sale_line_score |-> JsUndefined,
   player |-> "pl-1", opponent_team |-> "", away_team |-> "", home_team |-> "",
   attr_opponent |-> "", attr_away_team |-> "", attr_home_team |-> "",
   game |-> "", date |-> ""]

ProjectionPool ==
  { [BaseProjection EXCEPT !.id = "pp-1", !.opponent_team = "tm-tor", !.date = "today"],
    [BaseProjection EXCEPT !.id = "pp-2", !.player = "pl-2", !.stat_type = "Goals",
                           !.line_score = JsNumber(5),
                           !.away_team = "tm-tor", !.home_team = "tm-bos"],
    [BaseProjection EXCEPT !.id = "pp-3", !.game = "gm-1", !.line_score = JsUndefined,
                           !.line = JsString("3.5")],
    [BaseProjection EXCEPT !.id = "pp-4", !.player = "pl-2", !.stat_type = "Faceoffs",
                           !.line_score = JsNumber(105), !.attr_opponent = "bos "],
    [BaseProjection EXCEPT !.id = "pp-5", !.stat_type = "Power Play Points",
                           !.leagueId = "", !.league = "nhl"],
    [BaseProjection EXCEPT !.id = "pp-6", !.line_score = JsUndefined],
    [BaseProjection EXCEPT !.id = "pp-7", !.line_score = JsString("n/a"), !.date = "invalid"],
    [BaseProjection EXCEPT !.id = "pp-8", !.player = "pl-3"],
    [BaseProjection EXCEPT !.id = "pp-9", !.stat_type = ""],
    [BaseProjection EXCEPT !.id = "pp-10", !.stat_type = "Time On Ice"],
    [BaseProjection EXCEPT !.id = "pp-11", !.leagueId = "lg-nba", !.player = "pl-4"],
    [BaseProjection EXCEPT !.id = "pp-12", !.opponent_team = "tm-hou"],
    [BaseProjection EXCEPT !.id = "pp-13", !.date = "far"],
    [BaseProjection EXCEPT !.id = "pp-14", !.type = "new_player"],
    [BaseProjection EXCEPT !.id = "pp-15", !.line_score = JsNumber(-15)],
    [BaseProjection EXCEPT !.id = "pp-16", !.player = "pl-9"],
    [BaseProjection EXCEPT !.id = "pp-17", !.stat_type = "constructor"],
    [BaseProjection EXCEPT !.id = "pp-18", !.player = "pl-5", !.stat_type = "Points",
                           !.line_score = JsNumber(5)] }

Card(name, text, vs, matchups, position, gameTime) ==
  [name |-> name, text |-> text, vs |-> vs, matchups |-> matchups,
   position |-> position, gameTime |-> gameTime]

CardPool ==
  { Card("David Pastrnak", "David Pastrnak BOS RW Shots on Goal 2.5 vs TOR 7:00 PM",
         << "TOR" >>, << >>, "RW", "7:00 PM"),
    Card("David Pastrnak", "David Pastrnak bos Shots 2.5 @ Tor",
         << "Tor" >>, << >>, "", ""),
    Card("Auston Matthews", "Auston Matthews TOR C Faceoffs 10.5",
         << >>, << >>, "C", ""),
    Card("Cale Makar", "Cale Makar COL D Blocks 1.5 COL @ COL",
         << "COL", "COL" >>, << << "COL", "COL" >> >>, "D", ""),
    Card("Victor Hedman", "Victor Hedman TBL Hits 0 vs LA",
         << "LA" >>, << >>, "", ""),
    Card("", "BOS Goals 1.5", << >>, << >>, "", ""),
    Card("Anze Kopitar", "Anze Kopitar LA Points 0.5 WPG", << >>, << >>, "", ""),
    Card("Connor Hellebuyck", "Connor Hellebuyck WPG Time On Ice 60.5", << >>, << >>, "G", ""),
    Card("John Doe", "John Doe Hits 2.5", << >>, << >>, "", "") }

SchedulePool == { {}, { << "BOS", "TOR" >>, << "TOR", "BOS" >> } }

SheetPool ==
  { << >>,
    << DD("BOS", "TOR", "7:00 PM", "Shots on Goal", "25th"),
       DD("TOR", "BOS", "7:00 PM", "Goals Allowed", "28th") >> }

NoAnswer == [data |-> << >>, included |-> {}]

\* the answer of the API, the cards of the page and the schedule fetched
PropsInit ==
  /\ CanonIdle
  /\ ScrapeIdle
  /\ SheetIdle
  /\ source \in {"prizepicks", "underdog"}
  /\ \E items \in SeqsUpTo(IF source = "prizepicks" THEN ProjectionPool ELSE CardPool, MaxFeed),
        schedule \in SchedulePool :
       feed = [answer   |-> IF source = "prizepicks"
                            THEN [data |-> items, included |-> Included] ELSE NoAnswer,
               cards    |-> IF source = "underdog" THEN items ELSE << >>,
               schedule |-> schedule]
  /\ stage = "fetched"
  /\ props = << >>
  /\ defenseData \in SheetPool
  /\ merged = << >>
  /\ calls = 0

\* Step C: scrape PrizePicks and fill the missing opponents in
StepC ==
  /\ source = "prizepicks"
  /\ stage = "fetched"
  /\ props' = FillOpponents(scrapePrizePicksProps(feed.answer), feed.schedule)
  /\ stage' = "scraped"
  /\ UNCHANGED <<source, defenseData, merged, calls, feed, canonVars, scrapeVars, sheetVars>>

\* Step D: scrape Underdog and fill the missing opponents in
StepD ==
  /\ source = "underdog"
  /\ stage = "fetched"
  /\ props' = FillOpponents(extractPropsFromPage(feed.cards), feed.schedule)
  /\ stage' = "scraped"
  /\ UNCHANGED <<source, defenseData, merged, calls, feed, canonVars, scrapeVars, sheetVars>>

\* Step E, PrizePicks half
StepE_PrizePicks ==
  /\ source = "prizepicks"
  /\ stage = "scraped"
  /\ merged' = mergePrizePicksProps(props, defenseData).merged
  /\ stage' = "merged"
  /\ calls' = calls + 1
  /\ UNCHANGED <<source, props, defenseData, feed, canonVars, scrapeVars, sheetVars>>

\* Step E, Underdog half
StepE_Underdog ==
  /\ source = "underdog"
  /\ stage = "scraped"
  /\ merged' = mergeUnderdogProps(props, defenseData).merged
  /\ stage' = "merged"
  /\ calls' = calls + 1
  /\ UNCHANGED <<source, props, defenseData, feed, canonVars, scrapeVars, sheetVars>>

PropsNext == StepC \/ StepD \/ StepE_PrizePicks \/ StepE_Underdog

SpecProps == PropsInit /\ [][PropsNext]_vars

(***************************************************************************)
(* Claims on the props the scrapers emit                                   *)
(***************************************************************************)
NineCategories ==
  { "Shots on Goal", "Faceoffs Won", "Hits", "Goals", "Points", "Assists",
    "Blocked Shots", "Goals Allowed", "Goalie Saves" }

OpponentDiffers(record) ==
  (record.team # "" /\ record.opponent # "") => record.opponent # record.team

\* C12: in every defense record and in every merged record of the join the
\* opponent differs from the team whenever both are non-empty.
C12_OpponentDiffersFromTeam ==
  /\ \A i \in 1..Len(defenseData) : OpponentDiffers(defenseData[i])
  /\ \A i \in 1..Len(merged) : OpponentDiffers(merged[i])

\* the projection a PrizePicks prop was made from has a named player, a
\* statistic and a positive line
MadeFromComplete(prop) ==
  \E i \in 1..Len(feed.answer.data) :
    /\ feed.answer.data[i].id = prop.projectionId
    /\ Positive(LineOf(feed.answer.data[i]))
    /\ feed.answer.data[i].stat_type # ""
    /\ MapGet(playerMap(feed.answer.included), feed.answer.data[i].player, NoPlayer).name # ""

\* C13: every prop a prop scraper emits has a line above 0 and a non-empty
\* player name, team and statistic, and no PrizePicks projection that lacks
\* one of these is emitted.
C13_EmittedPropsComplete ==
  \A i \in 1..Len(props) :
    /\ Positive(props[i].line)
    /\ props[i].playerName # ""
    /\ props[i].team # ""
    /\ StatOf(props[i]) # ""
    /\ source = "prizepicks" => MadeFromComplete(props[i])

\* a prop was emitted while a projection of the same answer has no line
C13_Witness ==
  /\ stage = "scraped"
  /\ source = "prizepicks"
  /\ Len(props) > 0
  /\ \E i \in 1..Len(feed.answer.data) : ~Positive(LineOf(feed.answer.data[i]))

\* C14: the statistic of every prop a prop scraper emits is one of the nine
\* canonical categories.
C14_StatisticIsCanonical ==
  \A i \in 1..Len(props) : StatOf(props[i]) \in NineCategories

(***************************************************************************)
(* Claims on the passes of the join                                        *)
(***************************************************************************)
\* a defense record whose normalized statistic is defenseStat qualifies at
\* the pass for a prop whose normalized statistic is normalizedStat
Qualifies(pass, defenseStat, normalizedStat) ==
  CASE pass = 1 -> defenseStat = normalizedStat
    [] pass = 2 -> PartialHit(defenseStat, normalizedStat)
    [] pass = 3 -> \E k \in 1..Len(statAliases) :
                     PropMatchesAlias(k, normalizedStat) /\ AliasForwardHit(k, defenseStat)
    [] pass = 4 -> \E k \in 1..Len(statAliases) :
                     AliasReverseHit(k, defenseStat) /\ PropMatchesAlias(k, normalizedStat)

\* the indices, in the defense list, of the records of the prop's opponent
\* that qualify at the pass
CandidatesAt(pass, prop) ==
  LET normalizedOpponent == normalizeTeamForMatching(prop.opponent)
      normalizedStat == normalizeStatForMatching(StatOf(prop))
  IN  { j \in 1..Len(defenseData) :
          /\ normalizeTeamForMatching(defenseData[j].opponent) = normalizedOpponent
          /\ Qualifies(pass, normalizeStatForMatching(defenseData[j].position), normalizedStat) }

\* the first pass that has a candidate (0 if none has)
WinningPass(prop) ==
  IF CandidatesAt(1, prop) # {} THEN 1
  ELSE IF CandidatesAt(2, prop) # {} THEN 2
  ELSE IF CandidatesAt(3, prop) # {} THEN 3
  ELSE IF CandidatesAt(4, prop) # {} THEN 4
  ELSE 0

RankOrNA(rank) == IF rank = "" THEN "NA" ELSE rank

LooksUp(prop) == prop.opponent # "" /\ StatOf(prop) # ""

\* C15: the rank of a merged record comes from the first of the passes exact,
\* substring, alias forward, alias reverse that has a candidate among the
\* records of the prop's opponent, wherever in the list the candidates are.
C15_RankFromFirstPassWithCandidate ==
  Returned =>
    \A i \in 1..Len(props) :
      LooksUp(props[i]) =>
        LET winner == WinningPass(props[i])
        IN  IF winner = 0 THEN merged[i].defenseStrength = "NA"
            ELSE \E j \in CandidatesAt(winner, props[i]) :
                   merged[i].defenseStrength = RankOrNA(defenseData[j].rank)

\* a substring candidate stands before an exact candidate of another rank
\* in the list, and the merged record has the rank of the exact one
C15_Witness ==
  /\ Returned
  /\ \E i \in 1..Len(props) :
       /\ LooksUp(props[i])
       /\ \E j \in CandidatesAt(1, props[i]) :
            /\ \E e \in CandidatesAt(2, props[i]) :
                 e < j /\ defenseData[e].rank # defenseData[j].rank
            /\ merged[i].defenseStrength = defenseData[j].rank

\* C16: the rank of a merged record is that of the candidate of the winning
\* pass with the smallest index in the defense list.
C16_RankOfFirstCandidate ==
  Returned =>
    \A i \in 1..Len(props) :
      (LooksUp(props[i]) /\ WinningPass(props[i]) # 0) =>
        \E j \in CandidatesAt(WinningPass(props[i]), props[i]) :
          /\ \A other \in CandidatesAt(WinningPass(props[i]), props[i]) : j <= other
          /\ merged[i].defenseStrength = RankOrNA(defenseData[j].rank)


(***************************************************************************)
(* Claims on the extraction passes of scrapeDefenseData                    *)
(***************************************************************************)
\* C17: once the position passes are over, scrapeDefenseData makes at most
\* one further extraction attempt: after the unfiltered pass no other
\* extraction runs, whatever that pass returned.
C17_OneAttemptAfterPositions == afterLoop <= 1

\* `${position} - ...`: the row is attributed to the position
AttributedTo(row, position) ==
  Slice(row.position, 1, Len(position) + 3) = position \o " - "

\* C18: a position whose filter no locator strategy could activate is
\* skipped: after its pass no collected record is attributed to it.
C18_UnselectedPositionHasNoRows ==
  (lastPass.position # "" /\ ~lastPass.positionSelected) =>
    \A i \in 1..Len(allDefenseRows) : ~AttributedTo(allDefenseRows[i], lastPass.position)

\* rows are the rows of the first strategy that yields any, and of no other
FromFirstStrategy(rows, tried) ==
  \/ /\ rows = << >>
     /\ \A k \in 1..Len(tried) : tried[k] = << >>
  \/ \E k \in 1..Len(tried) :
       /\ tried[k] # << >>
       /\ \A j \in 1..(k - 1) : tried[j] = << >>
       /\ rows = Unique(tried[k], 1)

\* C19: the rows an extraction returns for a located container are those of
\* the first strategy, in priority order, that yields any row; the rows of
\* the later strategies are not among them.
C19_RowsFromOneStrategy ==
  (lastExtraction.kind # "none" /\ lastExtraction.container.found) =>
    FromFirstStrategy(lastExtraction.rows, lastExtraction.tried)

\* a row of a later strategy is left out although that strategy would have
\* yielded it
LaterStrategyLeftOut(rows, tried) ==
  \E k \in 1..Len(tried) : \E m \in (k + 1)..Len(tried) :
    /\ tried[k] # << >>
    /\ \E i \in 1..Len(tried[m]) :
         \A j \in 1..Len(rows) : RowKey(rows[j]) # RowKey(tried[m][i])

C19_Witness ==
  /\ lastExtraction.kind # "none"
  /\ lastExtraction.container.found
  /\ lastExtraction.rows # << >>
  /\ LaterStrategyLeftOut(lastExtraction.rows, lastExtraction.tried)

\* the English ordinal suffix of a number
EnglishSuffix(n) ==
  IF (n % 100) \in {11, 12, 13} THEN "th"
  ELSE IF n % 10 = 1 THEN "st"
  ELSE IF n % 10 = 2 THEN "nd"
  ELSE IF n % 10 = 3 THEN "rd"
  ELSE "th"

\* the rank text with the English ordinal suffix after its first number
EnglishOrdinal(rank) ==
  SubSeq(rank, 1, DigitRunEnd(rank, FirstDigit(rank)))
    \o EnglishSuffix(parseInt(FirstNumber(rank)))
    \o SubSeq(rank, DigitRunEnd(rank, FirstDigit(rank)) + 1, Len(rank))

\* the table row is extracted and its rank cell has digits but no suffix
NeedsSuffix(cells) ==
  /\ TableRow(cells) # << >>
  /\ HasDigit(trim(cells[2]))
  /\ ~HasOrdinal(trim(cells[2]))

\* C20: a table row whose rank cell has digits but no ordinal suffix is
\* returned with the English ordinal suffix of its number (st, nd, rd, th,
\* with th for 11, 12 and 13).
C20_EnglishOrdinalAppended ==
  (lastExtraction.kind # "none" /\ lastExtraction.container.found) =>
    \A i \in 1..Len(lastExtraction.container.table) :
      NeedsSuffix(lastExtraction.container.table[i]) =>
        \E j \in 1..Len(lastExtraction.rows) :
          lastExtraction.rows[j].rank = EnglishOrdinal(trim(lastExtraction.container.table[i][2]))


(***************************************************************************)
(* Claims on the records of one extraction                                 *)
(***************************************************************************)
\* the rows of the strategy an extraction took its rows from
RECURSIVE Extracted(_, _)
Extracted(tried, k) ==
  IF k > Len(tried) THEN << >>
  ELSE IF tried[k] # << >> THEN tried[k]
  ELSE Extracted(tried, k + 1)

SamePair(a, b) == a.position = b.position /\ a.rank = b.rank

\* C21: the list one extraction returns holds no two entries with the same
\* (statistic label, rank text) pair, and every distinct pair its strategy
\* extracted is in the list exactly once.
C21_OncePerPair ==
  (lastExtraction.kind # "none" /\ lastExtraction.container.found) =>
    /\ \A i, j \in 1..Len(lastExtraction.rows) :
         SamePair(lastExtraction.rows[i], lastExtraction.rows[j]) => i = j
    /\ \A i \in 1..Len(Extracted(lastExtraction.tried, 1)) :
         \E j \in 1..Len(lastExtraction.rows) :
           SamePair(lastExtraction.rows[j], Extracted(lastExtraction.tried, 1)[i])


\* the statistics of statCategories: the labels of one statistic are written
\* on one line of the list
statistics ==
  << {"Shots on Goal", "Shots", "SOG"},
     {"Faceoffs Won", "FOW", "Face Off Wins"},
     {"Hits"},
     {"Points", "Pts"},
     {"Goals Allowed", "GA"},
     {"Goalie Saves", "Saves", "SV"},
     {"Blocked Shots", "Blocks"},
     {"Time On Ice", "TOI"},
     {"Faceoffs Lost", "FOL"},
     {"Faceoffs", "FO"} >>

\* the statistic a label names (0 if it is no label of statCategories)
CategoryLineOf(label) ==
  LeftMost({ k \in 1..Len(statistics) :
               \E l \in statistics[k] : toLowerCase(l) = toLowerCase(label) })

\* the position filter a collected record is attributed to ("" if none)
FilterOf(row) ==
  IF \E k \in 1..Len(positions) : AttributedTo(row, positions[k])
  THEN positions[CHOOSE k \in 1..Len(positions) : AttributedTo(row, positions[k])]
  ELSE ""

\* the label of a collected record, without `${position} - `
LabelOf(row) ==
  IF FilterOf(row) = "" THEN row.position
  ELSE SubSeq(row.position, Len(FilterOf(row)) + 4, Len(row.position))

\* C22: the records one call of scrapeDefenseData collects (all of one team)
\* hold at most one record per statistic and position filter.
C22_OncePerStatisticAndFilter ==
  \A i, j \in 1..Len(allDefenseRows) :
    (/\ CategoryLineOf(LabelOf(allDefenseRows[i])) # 0
     /\ CategoryLineOf(LabelOf(allDefenseRows[i])) = CategoryLineOf(LabelOf(allDefenseRows[j]))
     /\ FilterOf(allDefenseRows[i]) = FilterOf(allDefenseRows[j])) => i = j


(***************************************************************************)
(* Claims on the normalization of the join                                 *)
(***************************************************************************)
\* s has no white space at either end and no two white-space characters in
\* a row, and its white space is the space character
SingleSpaced(s) ==
  /\ trim(s) = s
  /\ \A i \in 1..Len(s) : Char(s, i) \in WhiteSpace =>
       (Char(s, i) = " " /\ Slice(s, i + 1, i + 1) \notin WhiteSpace)

\* s holds letters, digits and white space only
NoPunctuation(s) == \A i \in 1..Len(s) : Char(s, i) \in (KeptChars \ {"_"})

\* C23: normalizeStatForMatching returns a lower-case string without
\* punctuation whose white space is single spaces; normalizing its result
\* again changes nothing, and 'LW - Shots on Goal' and 'LW Shots on Goal'
\* get the same result.
C23_StatNormalForm ==
  canonFn = "normalizeStatForMatching" =>
    /\ toLowerCase(canonOut.str) = canonOut.str
    /\ NoPunctuation(canonOut.str)
    /\ SingleSpaced(canonOut.str)
    /\ canonTwice = canonOut
    /\ (canonIn = "LW - Shots on Goal" /\ canonIn2 = "LW Shots on Goal") =>
         canonOut = canonOut2


\* C24: the PrizePicks team canonicalizer, the Underdog team canonicalizer
\* and the team normalization of the join return the same code for the same
\* raw string.
C24_OneCodePerAlias ==
  canonFn \in TeamCanonicalizers =>
    /\ canonOut = prizePicks_normalizeTeamName(canonIn)
    /\ canonOut = underdog_normalizeTeamName(canonIn)
    /\ canonOut = JsString(normalizeTeamForMatching(canonIn))


(***************************************************************************)
(* Claims on the rank the join attaches                                    *)
(***************************************************************************)
\* the record faces the opponent of the merged record
FacesOpponentOf(d, m) ==
  normalizeTeamForMatching(d.opponent) = normalizeTeamForMatching(m.opponent)

\* C25: a rank other than "NA" attached by the join is the rank of some
\* record of the defense list whose normalized opponent is the normalized
\* opponent of the prop.
C25_RankOfAnOpponentRecord ==
  Returned =>
    \A i \in 1..Len(merged) :
      merged[i].defenseStrength # "NA" =>
        \E j \in 1..Len(defenseData) :
          /\ FacesOpponentOf(defenseData[j], merged[i])
          /\ defenseData[j].rank = merged[i].defenseStrength

\* a rank was attached from a list that also holds a record of another
\* opponent with another rank
C25_Witness ==
  /\ Returned
  /\ \E i \in 1..Len(merged) :
       /\ merged[i].defenseStrength # "NA"
       /\ \E j \in 1..Len(defenseData) :
            /\ ~FacesOpponentOf(defenseData[j], merged[i])
            /\ defenseData[j].rank # merged[i].defenseStrength


(***************************************************************************)
(* Claims on what scrapeDefenseData returns                                *)
(***************************************************************************)
\* the returned list holds a record made from the collected row
ReturnedFor(row) ==
  \E j \in 1..Len(result) : result[j].stat = row.position /\ result[j].rank = row.rank

\* C26: when the call has ended, every record the position passes collected
\* is in the returned list, whatever happened after the passes.
C26_CollectedRecordsReturned ==
  pc = "done" =>
    \A i \in 1..Len(allDefenseRows) :
      FilterOf(allDefenseRows[i]) # "" => ReturnedFor(allDefenseRows[i])


(***************************************************************************)
(* Google Sheets: the defense upload, the defense read and the props       *)
(* writers.  A sheet is the sequence of its rows, a row the sequence of    *)
(* its cells; a cell holds the text that was sent to it.  The game times   *)
(* of the model hold neither 'T' nor '-', so new Date(...) is not tried.   *)
(***************************************************************************)
MaxUploads == 2

\* the decimal text of a natural number
RECURSIVE DecimalText(_)
DecimalText(n) ==
  IF n < 10 THEN Char(Digits, n + 1)
  ELSE DecimalText(n \div 10) \o Char(Digits, (n % 10) + 1)

\* String(n).padStart(2, '0')
Pad2(n) == IF n < 10 THEN "0" \o DecimalText(n) ELSE DecimalText(n)

\* (\d{1,2}) that starts at i: index of its last digit
HoursEnd(s, i) == IF Slice(s, i + 1, i + 1) \in DigitSet THEN i + 1 ELSE i

\* :? after index j: index of the last character consumed
ColonEnd(s, j) == IF Slice(s, j + 1, j + 1) = ":" THEN j + 1 ELSE j

\* (\d{2})? after index j: index of the last character consumed
MinutesEnd(s, j) ==
  IF Slice(s, j + 1, j + 1) \in DigitSet /\ Slice(s, j + 2, j + 2) \in DigitSet
  THEN j + 2 ELSE j

\* \s*(AM|PM)? after index j, upper-cased ("" if absent)
PeriodAfter(s, j) ==
  IF toUpperCase(Slice(s, SkipSpaces(s, j + 1), SkipSpaces(s, j + 1) + 1)) \in {"AM", "PM"}
  THEN toUpperCase(Slice(s, SkipSpaces(s, j + 1), SkipSpaces(s, j + 1) + 1))
  ELSE ""

\* the hour on the 24-hour clock
Hours24(hours, period) ==
  IF period = "PM" /\ hours # 12 THEN hours + 12
  ELSE IF period = "AM" /\ hours = 12 THEN 0
  ELSE hours

\* hours and minutes of the match whose hour is s[i..hoursEnd] and whose
\* optional colon ends at colonEnd
TimeParts(s, i, hoursEnd, colonEnd) ==
  [hours   |-> Hours24(parseInt(SubSeq(s, i, hoursEnd)), PeriodAfter(s, MinutesEnd(s, colonEnd))),
   minutes |-> IF MinutesEnd(s, colonEnd) > colonEnd
               THEN parseInt(SubSeq(s, colonEnd + 1, colonEnd + 2)) ELSE 0]

\* timeStr.match(/(\d{1,2}):?(\d{2})?\s*(AM|PM)?/i) of a text with a digit
TimeMatch(s) ==
  TimeParts(s, FirstDigit(s), HoursEnd(s, FirstDigit(s)),
            ColonEnd(s, HoursEnd(s, FirstDigit(s))))

TimeText(t) == Pad2(t.hours) \o ":" \o Pad2(t.minutes) \o ":00"

formatGameTimeForSheets(gameTime) ==
  IF trim(gameTime) = "" THEN ""
  ELSE IF HasDigit(trim(gameTime)) THEN TimeText(TimeMatch(trim(gameTime)))
  ELSE trim(gameTime)

Infinity == 100000

\* the time of day in minutes stands for the timestamp of today at that time
parseGameTime(gameTime) ==
  IF gameTime = "" THEN Infinity
  ELSE IF HasDigit(gameTime)
       THEN 60 * TimeMatch(gameTime).hours + TimeMatch(gameTime).minutes
  ELSE Infinity

\* prop.gameTime and prop.projectionId are optional
GameTimeOf(prop) == IF "gameTime" \in DOMAIN prop THEN prop.gameTime ELSE ""

ProjectionIdOf(prop) == IF "projectionId" \in DOMAIN prop THEN prop.projectionId ELSE ""

\* [...props].sort((a, b) => timeA - timeB): the sort is stable
RECURSIVE InsertByTime(_, _)
InsertByTime(sorted, prop) ==
  IF sorted = << >> THEN << prop >>
  ELSE IF parseGameTime(GameTimeOf(sorted[Len(sorted)])) > parseGameTime(GameTimeOf(prop))
       THEN Append(InsertByTime(SubSeq(sorted, 1, Len(sorted) - 1), prop), sorted[Len(sorted)])
  ELSE Append(sorted, prop)

RECURSIVE SortedPrefix(_, _)
SortedPrefix(list, n) ==
  IF n = 0 THEN << >> ELSE InsertByTime(SortedPrefix(list, n - 1), list[n])

sortPropsByGameTime(list) == SortedPrefix(list, Len(list))

prizePicksHeader ==
  << "Player", "Team", "Opponent", "Position", "Stat", "Line", "Defense Strength",
     "Projection ID", "Game Time" >>

underdogHeader ==
  << "Player", "Team", "Opponent", "Position", "Stat", "Line", "Defense Strength",
     "Game Time" >>

defenseHeader == << "Team", "Opponent", "Game Time", "Position", "Rank" >>

\* prop.defenseStrength || 'NA'
StrengthCell(prop) == IF prop.defenseStrength = "" THEN "NA" ELSE prop.defenseStrength

\* the line of a prop is carried as its decimal text
PrizePicksRow(prop) ==
  << prop.player, prop.team, prop.opponent, prop.position, prop.stat, prop.line,
     StrengthCell(prop), ProjectionIdOf(prop), formatGameTimeForSheets(GameTimeOf(prop)) >>

UnderdogRow(prop) ==
  << prop.player, prop.team, prop.opponent, prop.position, prop.stat, prop.line,
     StrengthCell(prop), formatGameTimeForSheets(GameTimeOf(prop)) >>

\* values: the header and one row per sorted prop
ValuesOf(title, list) ==
  IF title = "PrizePicks_Props"
  THEN << prizePicksHeader >> \o [i \in 1..Len(list) |-> PrizePicksRow(list[i])]
  ELSE << underdogHeader >> \o [i \in 1..Len(list) |-> UnderdogRow(list[i])]

\* the spreadsheet with the rows of one sheet replaced (the sheet is added
\* if it is missing)
WithSheet(doc, title, rows) ==
  [t \in (DOMAIN doc) \cup {title} |-> IF t = title THEN rows ELSE doc[t]]

\* the date of the runs of the model
Today == "2025-01-15"

\* `Defense_${yyyy}-${mm}-${dd}`
DefenseSheetTitle == "Defense_" \o Today

\* values of the upload: one row per record
UploadRows(list) ==
  [i \in 1..Len(list) |->
     << list[i].team, list[i].opponent, formatGameTimeForSheets(list[i].gameTime),
        list[i].stat, list[i].rank >>]

\* uploadDefenseDataToSheets: the sheet is created if missing, the header is
\* written if A1:E1 is empty, and the rows are appended below what is there
uploadDefenseDataToSheets(doc, list) ==
  WithSheet(doc, DefenseSheetTitle,
            (IF DefenseSheetTitle \in DOMAIN doc /\ doc[DefenseSheetTitle] # << >>
             THEN doc[DefenseSheetTitle] ELSE << defenseHeader >>) \o UploadRows(list))

\* headers.findIndex(h => h && words.some(w => h.toLowerCase().includes(w))),
\* counted from 1 (0 if none)
ColumnOf(headers, words) ==
  FindIndex([k \in 1..Len(headers) |->
               headers[k] # "" /\ \E w \in words : includes(toLowerCase(headers[k]), w)])

\* the column found by its header or else the default column
ColumnOr(found, default) == IF found > 0 THEN found ELSE default

Cell(row, k) == IF k <= Len(row) THEN trim(row[k]) ELSE ""

\* one sheet row as a defense record: none or one
ReadRow(row, teamIdx, opponentIdx, gameTimeIdx, positionIdx, rankIdx) ==
  IF \E k \in {teamIdx, opponentIdx, positionIdx, rankIdx} : Len(row) < k THEN << >>
  ELSE IF \E k \in {teamIdx, opponentIdx, positionIdx, rankIdx} : Cell(row, k) = "" THEN << >>
  ELSE << DD(Cell(row, teamIdx), Cell(row, opponentIdx), Cell(row, gameTimeIdx),
             Cell(row, positionIdx), Cell(row, rankIdx)) >>

RECURSIVE ReadRows(_, _, _)
ReadRows(rows, i, headers) ==
  IF i > Len(rows) THEN << >>
  ELSE ReadRow(rows[i],
               ColumnOr(ColumnOf(headers, {"team"}), 1),
               ColumnOr(ColumnOf(headers, {"opponent"}), 2),
               ColumnOr(ColumnOf(headers, {"time", "game"}), 3),
               ColumnOr(ColumnOf(headers, {"position", "stat"}), 4),
               ColumnOr(ColumnOf(headers, {"rank"}), 5))
       \o ReadRows(rows, i + 1, headers)

\* readDefenseDataFromSheets; the spreadsheet of the model holds no defense
\* sheet other than the one of today
readDefenseDataFromSheets(doc) ==
  IF DefenseSheetTitle \notin DOMAIN doc THEN << >>
  ELSE IF doc[DefenseSheetTitle] = << >> THEN << >>
  ELSE ReadRows(doc[DefenseSheetTitle], 2, doc[DefenseSheetTitle][1])

\* what scrapeDefenseData returned on three runs of the day
UploadPool ==
  { << [team |-> "BOS", opponent |-> "TOR", gameTime |-> "7:00 PM",
        stat |-> "Shots on Goal", rank |-> "25th"] >>,
    << [team |-> "BOS", opponent |-> "TOR", gameTime |-> "7:00 PM",
        stat |-> "Shots on Goal", rank |-> "27th"] >>,
    << [team |-> "TBL", opponent |-> "LAK", gameTime |-> "10:00 PM",
        stat |-> "Hits", rank |-> "32nd"],
       [team |-> "TBL", opponent |-> "LAK", gameTime |-> " ",
        stat |-> "Goals Allowed", rank |-> "24th"] >> }

\* the prop lists steps C and D deliver on a run
ScrapedPool ==
  IF source = "prizepicks"
  THEN SeqsUpTo({ PP("David Pastrnak", "BOS", "TOR", "SOG", "2.5", "pp-1"),
                  PP("Anze Kopitar", "LAK", "", "Points", "0.5", "pp-4") }, 2)
  ELSE SeqsUpTo({ UD("Victor Hedman", "TBL", "LA", "D", "Hits", "1.5", "10:00 PM"),
                  UD("David Pastrnak", "BOS", "TOR", "RW", "Shots on Goal", "2.5", "7:00 PM") }, 2)

SheetsInit ==
  /\ CanonIdle
  /\ ScrapeIdle
  /\ FeedIdle
  /\ SheetIdle
  /\ source \in {"prizepicks", "underdog"}
  /\ props = << >>
  /\ defenseData = << >>
  /\ merged = << >>
  /\ calls = 0

\* a run of the defense scraper ends with its upload
UploadDefense ==
  /\ Len(uploaded) < MaxUploads
  /\ \E list \in UploadPool :
       /\ spreadsheet' = uploadDefenseDataToSheets(spreadsheet, list)
       /\ uploaded' = Append(uploaded, list)
  /\ UNCHANGED <<joinVars, canonVars, scrapeVars, feedVars, written>>

\* Step A of the props workflow
StepA ==
  /\ stage = "idle"
  /\ calls < MaxCalls
  /\ defenseData' = readDefenseDataFromSheets(spreadsheet)
  /\ stage' = "fetched"
  /\ UNCHANGED <<source, props, merged, calls, feed, canonVars, scrapeVars, sheetVars>>

\* steps C and D as seen from the sheets: a list of props arrives
ScrapeProps ==
  /\ stage = "fetched"
  /\ feed = << >>
  /\ props' \in ScrapedPool
  /\ stage' = "scraped"
  /\ UNCHANGED <<source, defenseData, merged, calls, feed, canonVars, scrapeVars, sheetVars>>

\* a props writer called with list for the sheet title: an empty list returns
\* at once; otherwise the sheet is cleared or created and then written from
\* A1, and a failing request is thrown on
WriteCall(title, list) ==
  IF list = << >>
  THEN /\ written' = [sheet |-> title, props |-> list, outcome |-> "returned"]
       /\ UNCHANGED spreadsheet
  ELSE \E failing \in {"none", "manage", "update"} :
         /\ written' = [sheet |-> title, props |-> list,
                        outcome |-> IF failing = "none" THEN "returned" ELSE "raised"]
         /\ spreadsheet' =
              CASE failing = "manage" -> spreadsheet
                [] failing = "update" -> WithSheet(spreadsheet, title, << >>)
                [] failing = "none" ->
                     WithSheet(spreadsheet, title, ValuesOf(title, sortPropsByGameTime(list)))

writePrizePicksPropsToSheets ==
  /\ stage = "merged"
  /\ source = "prizepicks"
  /\ WriteCall("PrizePicks_Props", merged)
  /\ stage' = "idle"
  /\ UNCHANGED <<joinVars, canonVars, scrapeVars, feed, uploaded>>

writeUnderdogPropsToSheets ==
  /\ stage = "merged"
  /\ source = "underdog"
  /\ WriteCall("Underdog_Props", merged)
  /\ stage' = "idle"
  /\ UNCHANGED <<joinVars, canonVars, scrapeVars, feed, uploaded>>

SheetsNext ==
  \/ UploadDefense
  \/ StepA
  \/ ScrapeProps
  \/ StepE_PrizePicks
  \/ StepE_Underdog
  \/ writePrizePicksPropsToSheets
  \/ writeUnderdogPropsToSheets

SpecSheets == SheetsInit /\ [][SheetsNext]_vars


(***************************************************************************)
(* Claims on the sheets                                                    *)
(***************************************************************************)
\* what the props workflow would read if the sheet of today held the most
\* recent upload only
LatestRead ==
  readDefenseDataFromSheets(uploadDefenseDataToSheets(<< >>, uploaded[Len(uploaded)]))

\* the rank the join attaches to a merged record against a defense list
RankAgainst(list, m) == OrNA(findDefenseStrength(list, m.team, m.opponent, m.stat))

\* C27: after two or more uploads of the day, a props workflow that read the
\* sheet as it is now attaches, for every prop the most recent upload has a
\* rank for, the rank of the most recent upload.
C27_RankOfLatestUpload ==
  (/\ stage = "merged"
   /\ Len(uploaded) >= 2
   /\ defenseData = readDefenseDataFromSheets(spreadsheet)) =>
    \A i \in 1..Len(merged) :
      RankAgainst(LatestRead, merged[i]) # "NA" =>
        merged[i].defenseStrength = RankAgainst(LatestRead, merged[i])

HeaderOf(title) == IF title = "PrizePicks_Props" THEN prizePicksHeader ELSE underdogHeader

\* the sheet row tells the prop: player, statistic and line
RowOfProp(row, prop) == row[1] = prop.player /\ row[5] = prop.stat /\ row[6] = prop.line

\* C28: after a props writer returned without error, its sheet holds the
\* header row and one row per prop of the list it was passed, and nothing
\* else, also when that list is empty.
C28_SheetHoldsTheListWritten ==
  written.outcome = "returned" =>
    /\ written.sheet \in DOMAIN spreadsheet
    /\ Len(spreadsheet[written.sheet]) = 1 + Len(written.props)
    /\ spreadsheet[written.sheet][1] = HeaderOf(written.sheet)
    /\ \A i \in 1..Len(written.props) :
         \E k \in 2..Len(spreadsheet[written.sheet]) :
           RowOfProp(spreadsheet[written.sheet][k], written.props[i])


\* C29: two merged records of one call with the same opponent and the same
\* statistic carry the same defenseStrength, whatever their player, team,
\* line, player position and game time, also when the defense list holds
\* position-specific records of that statistic.
C29_RankIgnoresPlayerFields ==
  Returned =>
    \A i, j \in 1..Len(merged) :
      (merged[i].opponent = merged[j].opponent /\ merged[i].stat = merged[j].stat) =>
        merged[i].defenseStrength = merged[j].defenseStrength

\* a left wing and a right wing face the same opponent on the same statistic
\* and the defense list holds a record of that statistic for left wings
C29_Witness ==
  /\ Returned
  /\ source = "underdog"
  /\ \E i, j \in 1..Len(merged) :
       /\ merged[i].position = "LW"
       /\ merged[j].position = "RW"
       /\ merged[i].team # merged[j].team
       /\ merged[i].opponent = merged[j].opponent
       /\ merged[i].stat = merged[j].stat
       /\ merged[i].defenseStrength # "NA"
  /\ \E k \in 1..Len(defenseData) : defenseData[k].position = "LW - Shots on Goal"

\* the canonical codes of the alias table of normalizeTeamName (PrizePicks)
CanonicalCodes == { entry[2] : entry \in prizePicks_teamMap }

\* the projection passes every test of the loop other than the two tests of
\* the validation set, its team is a canonical code of the alias table and
\* its opponent is one or is missing
AcceptableBut(projection, included) ==
  LET player == MapGet(playerMap(included), projection.player, NoPlayer)
      team == prizePicks_normalizeTeamName(player.team).str
      statCategory == prizePicks_normalizeStatType(JsString(projection.stat_type)).str
  IN  /\ projection.type \in {"new_projection", "projection"}
      /\ isNHL(projection, included)
      /\ isAllowedStat(statCategory)
      /\ player.found
      /\ team \in CanonicalCodes
      /\ OpponentOf(projection, team, included) \in CanonicalCodes \cup {""}
      /\ ~DateSkips(projection.date)
      /\ EmitGuard(player.name, team, statCategory, LineOf(projection))

\* C30: a projection of an answer scrapePrizePicksProps worked through is not
\* dropped when its team and its opponent are canonical codes of the alias
\* table of the PrizePicks team canonicalizer (UTA is one): the scraped list
\* holds its prop.
C30_CanonicalCodesAccepted ==
  (source = "prizepicks" /\ stage = "scraped"
     /\ ~\E i \in 1..Len(feed.answer.data) :
           isNHL(feed.answer.data[i], feed.answer.included) /\ StatThrows(feed.answer.data[i])) =>
    \A i \in 1..Len(feed.answer.data) :
      AcceptableBut(feed.answer.data[i], feed.answer.included) =>
        \E k \in 1..Len(props) : props[k].projectionId = feed.answer.data[i].id

====
